---------------------------- MODULE Spec2Model ----------------------------
(***************************************************************************)
(* A model of the swap core of the Telegram wallet bot:                    *)
(*   - GardenService (cross-chain swaps through a Garden instance and its  *)
(*     background execute loop),                                           *)
(*   - the allowance check-and-approve of CowSwapService / UniswapService, *)
(*   - executeBestDEXSwap (the router between the two venues),             *)
(*   - executeSwap of both venues and CowSwapService.monitorOrderExecution.*)
(* Each subsystem has its own specification over its own variables; the    *)
(* variables of the other subsystems stay at their initial values.         *)
(***************************************************************************)
EXTENDS Integers, Sequences, FiniteSets, TLC

VARIABLES
  \* ---- GardenService (src/unnamed/part_009, lines 475-882) ----
  gardens,              \* every Garden instance created so far, in creation order
  garden,               \* this.garden: index into gardens of the current instance
  listenersInitialized, \* this.listenersInitialized
  orders,               \* the orders created by garden.swap, in creation order
  orderUserMap,         \* this.orderUserMap: order id -> user id
  gcall,                \* the executeSwap call in flight (one update at a time)
  \* ---- allowance check-and-approve (part_007 86-140, part_009 1014-1079) ----
  allowance,            \* on chain: allowance(owner wallet, spender) of the sell token
  acall,                \* the check-and-approve calls, one per bot update
  \* ---- DEX selection (swap.callback.ts 582-694) ----
  rcall,                \* the executeBestDEXSwap call in flight
  \* ---- executeSwap of the two DEX services (part_007 339-562, part_009 1263-1496) ----
  balance,              \* on chain: the wallet's balance of the sell asset
  xcall,                \* the executeSwap call in flight
  \* ---- order monitor (part_007 145-198) and the code that consumes it ----
  now,                  \* Date.now(), in ms
  cowOrder,             \* the order as the order book reports it
  mon,                  \* the monitorOrderExecution call
  swapResult,           \* what executeSwap makes of the monitor's result
  reply,                \* what swap_confirm tells the user
  \* ---- transactions of a wallet (swap_confirm and both executeSwap) ----
  pending,              \* per wallet: its transactions sent and not yet mined
  wcall,                \* the swap_confirm handlers, one per bot update
  \* ---- the runs of garden.execute() at work (part_009 527-546) ----
  processing,           \* per order: the execute() runs acting on it right now
  \* ---- wallets (BitcoinService / EthereumService), CONFIG, sessions ----
  userSeed,             \* per user: the digest getUserSeed gives under SERVER_SECRET
  handed,               \* the last two wallets handed out, with their inputs
  env,                  \* process.env as the process finds it
  boot,                 \* "loading" | "failed" | "handling"
  session,              \* per user: the wallets kept in ctx.session
  \* ---- UniswapService.findWorkingPool (part_009 1084-1142) ----
  pools,                \* per fee tier: what the factory and the pool report
  pool,                 \* the fee tier of the pool findWorkingPool returned
  \* ---- the Garden instance each step of an executeSwap call uses ----
  gcalls,               \* the swap_cross_chain_confirm handlers, one per bot update
  \* ---- the swap conversation of one chat (handlers of the swap flow) ----
  handlers,             \* which version of the swap handlers the bot registered
  chat,                 \* the swap fields of ctx.session
  buttons,              \* the inline buttons sent to the chat so far
  hcall                 \* the swap_confirm handler and the updates behind it

gvars == <<gardens, garden, listenersInitialized, orders, orderUserMap, gcall>>
avars == <<allowance, acall>>
rvars == <<rcall>>
xvars == <<balance, xcall>>
mvars == <<now, cowOrder, mon, swapResult, reply>>

wvars == <<pending, wcall>>

pvars == <<processing>>

kvars == <<userSeed, handed, env, boot, session>>

fvars == <<pools, pool>>

svars == <<gcalls>>

cvars == <<handlers, chat, buttons, hcall>>

vars == <<gvars, avars, rvars, xvars, mvars, wvars, pvars, kvars, fvars, svars, cvars>>

\* ------------------------------------------------------------------ bounds
MaxUsers == 2
MaxGardens == 3
MaxOrders == 2
MaxLoops == 2
MaxWallets == 1
MaxAmount == 2
MaxCalls == 2
MaxHead == 4
MaxTail == 1
MaxLatency == 5000
MaxSegment == 1
MaxIndex == 1
MaxTokens == 2
ShortTimeoutMs == 1000

Users == 1..MaxUsers
NoWallet == 0

ETHEREUM == "ethereum"
BITCOIN == "bitcoin"
BlockchainType == {ETHEREUM, BITCOIN}

Min(a, b) == IF a < b THEN a ELSE b

(***************************************************************************)
(* GardenService                                                           *)
(*                                                                         *)
(* A Garden instance is an object of @gardenfi/core.  The service treats   *)
(* it as the holder of the wallets of one swap: initGarden creates one     *)
(* "without wallets", configureWallets creates "a new Garden instance with *)
(* the updated wallets", and setupEventListeners is meant to attach the    *)
(* listeners and start execute() "for the new instance".  The model keeps  *)
(* that view: an order is handled by the execute() loop of the instance    *)
(* that created it, and events are emitted on that instance.               *)
(***************************************************************************)
NewGarden(evmWallet) == [evm |-> evmWallet, listeners |-> FALSE, loops |-> 0]

\* garden.execute(): one more run of the instance's redeem/refund loop.
StartExecute(gs, g) ==
  [gs EXCEPT ![g].loops = Min(@ + 1, MaxLoops)]

\* setupEventListeners(): attaches both listeners to this.garden and calls
\* this.garden.execute(), unless listenersInitialized is already set.
SetupEventListeners(gs, g, inited) ==
  IF inited THEN gs
  ELSE StartExecute([gs EXCEPT ![g].listeners = TRUE], g)

\* configureWallets(evmPrivateKey, bitcoinPrivateKey): the bitcoin key is not
\* used; only an EVM key ends up in the new instance's wallets.
ConfigureWallets(gs, evmWallet, inited) ==
  SetupEventListeners(Append(gs, NewGarden(evmWallet)), Len(gs) + 1, inited)

\* The SwapResult of executeSwap: success, the order, whether txHash and
\* depositAddress are defined, and isBitcoinSource.
NoSwapResult ==
  [kind |-> "none", order |-> 0, txHash |-> FALSE, depositAddress |-> FALSE,
   isBitcoinSource |-> FALSE]

\* return { success: false, message, error }
Failure == [NoSwapResult EXCEPT !.kind = "failure"]

\* An executeSwap without its try / catch: the error leaves the call.
Rethrown == [NoSwapResult EXCEPT !.kind = "thrown"]

\* catch (error) { return { success: false, ... } }: what a throw inside
\* executeSwap becomes.
Caught == Failure

\* executeSwap returns.
Return(result) == [pc |-> "idle", result |-> result]

\* The state after `new GardenService(bot)`: initGarden creates the first
\* instance and startExecutionLoop runs execute() on it and arms the
\* 5-minute timer; setupEventListeners attaches the listeners and runs
\* execute() once more.
GardenState ==
  /\ gardens = SetupEventListeners(StartExecute(<<NewGarden(NoWallet)>>, 1), 1, FALSE)
  /\ garden = 1
  /\ listenersInitialized = TRUE
  /\ orders = <<>>
  /\ orderUserMap = <<>>
  /\ gcall = [pc |-> "idle", result |-> NoSwapResult]

Supported(from, to) ==
  \/ from = ETHEREUM /\ to = BITCOIN
  \/ from = BITCOIN /\ to = ETHEREUM

\* An executeSwap that configures the wallets before it looks at the pair.
ExecuteSwapStartConfiguresFirst(u, from, to, hasKey) ==
  /\ gcall.pc = "idle"
  /\ Len(orders) < MaxOrders
  /\ Len(gardens) < MaxGardens
  /\ gardens' = ConfigureWallets(gardens,
                  IF from = ETHEREUM /\ hasKey THEN u ELSE NoWallet,
                  listenersInitialized)
  /\ garden' = Len(gardens) + 1
  /\ gcall' = IF Supported(from, to)
                THEN [pc |-> "quote", user |-> u, from |-> from, to |-> to,
                      order |-> 0, result |-> NoSwapResult]
                ELSE Return(Caught)
  /\ UNCHANGED <<listenersInitialized, orders, orderUserMap>>

\* executeSwap up to its first await: configureWallets for a supported pair,
\* the throw for an unsupported one (caught: the call returns a failure).
\* hasKey: the privateKey argument is not empty (swap_cross_chain_confirm
\* passes `sourceWallet.privateKey || ""`).
ExecuteSwapStart(u, from, to, hasKey) ==
  /\ gcall.pc = "idle"
  /\ Len(orders) < MaxOrders
  /\ IF Supported(from, to)
       THEN /\ Len(gardens) < MaxGardens
            /\ gardens' = ConfigureWallets(gardens,
                            IF from = ETHEREUM /\ hasKey THEN u ELSE NoWallet,
                            listenersInitialized)
            /\ garden' = Len(gardens) + 1
            /\ gcall' = [pc |-> "quote", user |-> u, from |-> from, to |-> to,
                         order |-> 0, result |-> NoSwapResult]
       ELSE /\ gcall' = Return(Caught)
            /\ UNCHANGED <<gardens, garden>>
  /\ UNCHANGED <<listenersInitialized, orders, orderUserMap>>

\* this.garden.quote.getQuote: an error or an empty quote list ends the call.
ExecuteSwapQuote(ok) ==
  /\ gcall.pc = "quote"
  /\ gcall' = IF ok THEN [gcall EXCEPT !.pc = "swap"] ELSE Return(Failure)
  /\ UNCHANGED <<gardens, garden, listenersInitialized, orders, orderUserMap>>

\* this.garden.swap(swapParams): on success the order exists on the current
\* instance and orderUserMap maps it to the caller.
ExecuteSwapCreate(ok) ==
  /\ gcall.pc = "swap"
  /\ IF ok
       THEN /\ orders' = Append(orders,
                  [user |-> gcall.user, from |-> gcall.from, garden |-> garden,
                   status |-> "created", expired |-> FALSE, refunds |-> 0])
            /\ orderUserMap' = Append(orderUserMap, gcall.user)
            /\ gcall' = [gcall EXCEPT !.order = Len(orders) + 1,
                           !.pc = IF gcall.from = ETHEREUM THEN "initiate" ELSE "fund"]
       ELSE /\ gcall' = Return(Failure)
            /\ UNCHANGED <<orders, orderUserMap>>
  /\ UNCHANGED <<gardens, garden, listenersInitialized>>

\* const initResult = await this.garden.evmHTLC?.initiate(order): an
\* instance without an EVM wallet has no evmHTLC, the call is skipped and
\* initResult is undefined.  An error of initiate is returned as a failure;
\* otherwise txHash = initResult?.val and the success is returned.
ExecuteSwapInitiate(ok) ==
  /\ gcall.pc = "initiate"
  /\ LET hasHTLC == gardens[garden].evm # NoWallet
     IN /\ orders' = IF hasHTLC /\ ok
                        THEN [orders EXCEPT ![gcall.order].status = "locked"]
                        ELSE orders
        /\ gcall' = IF hasHTLC /\ ~ok THEN Return(Failure)
                    ELSE Return([NoSwapResult EXCEPT !.kind = "success",
                                   !.order = gcall.order, !.txHash = hasHTLC])
  /\ UNCHANGED <<gardens, garden, listenersInitialized, orderUserMap>>

\* Bitcoin source: btcWallet.send(swap_id, amount) pays the HTLC address
\* from the session's wallet; a throw is caught and the call returns a
\* failure.  depositAddress is never assigned.
ExecuteSwapFund(ok) ==
  /\ gcall.pc = "fund"
  /\ orders' = IF ok THEN [orders EXCEPT ![gcall.order].status = "locked"] ELSE orders
  /\ gcall' = IF ok
                THEN Return([NoSwapResult EXCEPT !.kind = "success",
                               !.order = gcall.order, !.isBitcoinSource = TRUE])
                ELSE Return(Caught)
  /\ UNCHANGED <<gardens, garden, listenersInitialized, orderUserMap>>

\* The setInterval callback of startExecutionLoop: executeGarden() runs
\* execute() on whatever instance this.garden is at that moment.
Tick ==
  /\ gardens' = StartExecute(gardens, garden)
  /\ UNCHANGED <<garden, listenersInitialized, orders, orderUserMap, gcall>>

\* The timelock of a locked order runs out.
Expire(i) ==
  /\ i <= Len(orders)
  /\ orders[i].status = "locked"
  /\ ~orders[i].expired
  /\ orders' = [orders EXCEPT ![i].expired = TRUE]
  /\ UNCHANGED <<gardens, garden, listenersInitialized, orderUserMap, gcall>>

\* An instance's loop handles an order when execute() runs on the instance
\* that holds it.
LoopHandles(i) ==
  /\ i <= Len(orders)
  /\ gardens[orders[i].garden].loops > 0

\* A loop that redeems whatever order it handles, locked or not.
LoopRedeemAnyOrder(i) ==
  /\ LoopHandles(i)
  /\ orders[i].status # "redeemed"
  /\ orders' = [orders EXCEPT ![i].status = "redeemed"]
  /\ UNCHANGED <<gardens, garden, listenersInitialized, orderUserMap, gcall>>

\* The loop redeems a locked order before its timelock ran out.
LoopRedeem(i) ==
  /\ LoopHandles(i)
  /\ orders[i].status = "locked"
  /\ ~orders[i].expired
  /\ orders' = [orders EXCEPT ![i].status = "redeemed"]
  /\ UNCHANGED <<gardens, garden, listenersInitialized, orderUserMap, gcall>>

\* The loop refunds a locked order whose timelock ran out.
LoopRefund(i) ==
  /\ LoopHandles(i)
  /\ orders[i].status = "locked"
  /\ orders[i].expired
  /\ orders' = [orders EXCEPT ![i].status = "refunded", ![i].refunds = @ + 1]
  /\ UNCHANGED <<gardens, garden, listenersInitialized, orderUserMap, gcall>>

GardenNext ==
  \/ \E u \in Users, from \in BlockchainType, to \in BlockchainType, hasKey \in BOOLEAN :
        ExecuteSwapStart(u, from, to, hasKey)
  \/ \E ok \in BOOLEAN : ExecuteSwapQuote(ok)
  \/ \E ok \in BOOLEAN : ExecuteSwapCreate(ok)
  \/ \E ok \in BOOLEAN : ExecuteSwapInitiate(ok)
  \/ \E ok \in BOOLEAN : ExecuteSwapFund(ok)
  \/ Tick
  \/ \E i \in 1..MaxOrders : Expire(i)
  \/ \E i \in 1..MaxOrders : LoopRedeem(i)
  \/ \E i \in 1..MaxOrders : LoopRefund(i)

Locked(i) == i <= Len(orders) /\ orders[i].status = "locked"
Settled(i) == i <= Len(orders) /\ orders[i].status \in {"redeemed", "refunded"}

\* A locked order that no loop will handle again: execute() never ran on the
\* instance that holds it, and that instance is no longer this.garden, the
\* only instance a tick runs execute() on.
Abandoned(i) ==
  /\ Locked(i)
  /\ gardens[orders[i].garden].loops = 0
  /\ orders[i].garden # garden

\* Once abandoned, an order stays abandoned: this.garden only ever moves on
\* to a newer instance.
AbandonedStaysAbandoned ==
  [][\A i \in 1..MaxOrders : Abandoned(i) => Abandoned(i)']_vars

\* C1: every swap whose source leg is locked is eventually redeemed or
\* refunded by the background loop: no sequence of swap creations,
\* initiations, wallet reconfigurations and ticks leaves a locked swap that
\* the loop never processes again.
C1_NoLockedSwapAbandoned ==
  \A i \in 1..MaxOrders : ~Abandoned(i)

\* C2: a swap whose timelock ran out unredeemed is refunded by the loop
\* exactly once: never more than once, and eventually once.
C2_RefundExactlyOnce ==
  /\ [](\A i \in 1..MaxOrders : i <= Len(orders) => orders[i].refunds <= 1)
  /\ \A i \in 1..MaxOrders :
       (Locked(i) /\ orders[i].expired) ~> (i <= Len(orders) /\ orders[i].refunds = 1)


(***************************************************************************)
(* Allowance check-and-approve: CowSwapService.checkAndApproveToken        *)
(* (spender VAULT_RELAYER_ADDRESS) and UniswapService.ensureTokenAllowance *)
(* (spender SWAP_ROUTER).  A call is made by the handler of one bot        *)
(* update; bot.start() runs grammY's built-in long polling, which awaits   *)
(* the handler of an update before it handles the next one.                *)
(***************************************************************************)
Wallets == 1..MaxWallets
VAULT_RELAYER == "VAULT_RELAYER_ADDRESS"
SWAP_ROUTER == "SWAP_ROUTER"
Spenders == {VAULT_RELAYER, SWAP_ROUTER}
Triples == Wallets \X Spenders
Calls == 1..MaxCalls

\* ethers.constants.MaxUint256: larger than every amount a call asks for.
MaxUint256 == MaxAmount + 1

NotRead == -1

SpenderOf(svc) == IF svc = "cow" THEN VAULT_RELAYER ELSE SWAP_ROUTER
TripleOf(c) == <<c.wallet, SpenderOf(c.svc)>>

NewCall ==
  [pc |-> "new", svc |-> "cow", wallet |-> 1, native |-> FALSE, amount |-> 1,
   read |-> NotRead, approveCalls |-> 0, tx |-> "none", txAmount |-> 0,
   ret |-> "none"]


\* No call made yet; the allowances on chain are whatever earlier use of the
\* wallet left.
AllowanceState ==
  /\ allowance \in [Triples -> 0..MaxAmount]
  /\ acall = [r \in Calls |-> NewCall]

AllowanceIdle ==
  /\ allowance = [t \in Triples |-> 0]
  /\ acall = [r \in Calls |-> NewCall]

\* The check-then-approve sequence of a call: from its first read to its return.
InSequence(r) == acall[r].pc \in {"read", "approve", "wait"}

\* A dispatcher that hands every update to its handler at once, as a
\* concurrent runner would.
HandleUpdatesConcurrently == TRUE

\* bot.start(): the next update is handled when the handler of the previous
\* one has returned.
MayHandleUpdate == \A r \in Calls : acall[r].pc \in {"new", "done"}

\* The comparison with lte in place of lt.
NeedsApprovalLte(current, amount) == current <= amount

\* currentAllowance.lt(amount)
NeedsApproval(current, amount) == current < amount

\* An approval for the amount of the swap only.
ApprovalAmountExact(amount) == amount

\* tokenContract.approve(spender, ethers.constants.MaxUint256)
ApprovalAmount(amount) == MaxUint256

\* A handler calls checkAndApproveToken / ensureTokenAllowance.
\* Uniswap: "Native ETH doesn't need approval" returns at once.
CallEnsureAllowance(r, svc, w, native, amount) ==
  /\ acall[r].pc = "new"
  /\ \A q \in Calls : q < r => acall[q].pc # "new"
  /\ MayHandleUpdate
  /\ acall' = [acall EXCEPT ![r] =
       [NewCall EXCEPT !.svc = svc, !.wallet = w, !.native = native,
          !.amount = amount,
          !.pc = IF svc = "uni" /\ native THEN "done" ELSE "read",
          !.ret = IF svc = "uni" /\ native THEN "approved" ELSE "none"]]
  /\ UNCHANGED allowance

\* tokenContract.allowance(wallet.address, spender).  The call throws for
\* an address that is no token contract (the native marker), or when the
\* RPC fails (ok = FALSE); the catch returns {approved: false}.
ReadAllowance(r, ok) ==
  /\ acall[r].pc = "read"
  /\ LET c == acall[r]
         cur == allowance[TripleOf(c)]
     IN acall' = [acall EXCEPT ![r] =
          IF c.native \/ ~ok
            THEN [c EXCEPT !.pc = "done", !.ret = "failed"]
          ELSE IF NeedsApproval(cur, c.amount)
            THEN [c EXCEPT !.pc = "approve", !.read = cur]
          ELSE [c EXCEPT !.pc = "done", !.read = cur, !.ret = "approved"]]
  /\ UNCHANGED allowance

\* tokenContract.approve(...): the transaction is sent (ok), or the call
\* throws and the catch returns {approved: false}.
SendApproval(r, ok) ==
  /\ acall[r].pc = "approve"
  /\ acall' = [acall EXCEPT ![r] =
       IF ok
         THEN [@ EXCEPT !.pc = "wait", !.approveCalls = @ + 1, !.tx = "pending",
                        !.txAmount = ApprovalAmount(acall[r].amount)]
         ELSE [@ EXCEPT !.pc = "done", !.approveCalls = @ + 1, !.ret = "failed"]]
  /\ UNCHANGED allowance

\* await tx.wait(): the transaction is mined; a reverted one makes wait()
\* throw and the catch returns {approved: false}.
WaitApproval(r, ok) ==
  /\ acall[r].pc = "wait"
  /\ IF ok
       THEN /\ allowance' = [allowance EXCEPT ![TripleOf(acall[r])] = acall[r].txAmount]
            /\ acall' = [acall EXCEPT ![r].pc = "done", ![r].tx = "success",
                                      ![r].ret = "approved"]
       ELSE /\ acall' = [acall EXCEPT ![r].pc = "done", ![r].tx = "reverted",
                                      ![r].ret = "failed"]
            /\ UNCHANGED allowance

AllowanceNext ==
  \/ \E r \in Calls, svc \in {"cow", "uni"}, w \in Wallets, native \in BOOLEAN,
        amount \in 1..MaxAmount : CallEnsureAllowance(r, svc, w, native, amount)
  \/ \E r \in Calls, ok \in BOOLEAN : ReadAllowance(r, ok)
  \/ \E r \in Calls, ok \in BOOLEAN : SendApproval(r, ok)
  \/ \E r \in Calls, ok \in BOOLEAN : WaitApproval(r, ok)

Returned(r) == acall[r].pc = "done"
ReadBelow(r) == acall[r].read # NotRead /\ acall[r].read < acall[r].amount
ReadSufficient(r) == acall[r].read # NotRead /\ acall[r].read >= acall[r].amount

\* C4: a call that reads an allowance below the required amount makes a
\* single approve call, for the maximum amount, and once the transaction is
\* sent it returns only after the transaction was mined; it reports approved
\* only for a transaction that succeeded.  No approval is sent without such a
\* read.
C4_ApproveOnceForMaxAndWait ==
  \A r \in Calls :
    /\ acall[r].approveCalls <= 1
    /\ acall[r].approveCalls = 1 => ReadBelow(r)
    /\ acall[r].tx # "none" => acall[r].txAmount = MaxUint256
    /\ Returned(r) /\ ReadBelow(r) =>
         /\ acall[r].approveCalls = 1
         /\ acall[r].tx \in {"none", "success", "reverted"}
         /\ acall[r].ret = "approved" <=> acall[r].tx = "success"
         /\ acall[r].ret = "approved" => allowance[TripleOf(acall[r])] = MaxUint256

C4_Witness ==
  \E r \in Calls :
    /\ Returned(r) /\ ReadBelow(r)
    /\ acall[r].ret = "approved" /\ acall[r].tx = "success"

\* C5: a call that reads a sufficient allowance performs no on-chain write:
\* no approve call and no transaction, and it leaves the allowance as read.
C5_SufficientAllowanceNoWrite ==
  \A r \in Calls :
    ReadSufficient(r) =>
      /\ acall[r].approveCalls = 0
      /\ acall[r].tx = "none"
      /\ Returned(r) /\ acall[r].ret = "approved"

\* Two consecutive calls for one triple, the first of which approved: the
\* second one read a sufficient allowance and returned.
C5_Witness ==
  \E r1, r2 \in Calls :
    /\ r1 < r2
    /\ TripleOf(acall[r1]) = TripleOf(acall[r2])
    /\ Returned(r1) /\ acall[r1].tx = "success"
    /\ Returned(r2) /\ ReadSufficient(r2) /\ acall[r2].approveCalls = 0

\* C10: two check-then-approve sequences for the same (wallet, token,
\* spender) never overlap, so no two of them both read an insufficient
\* allowance and both have an approval transaction succeed.
C10_SequencesSerializedPerTriple ==
  \A r1, r2 \in Calls :
    r1 # r2 /\ TripleOf(acall[r1]) = TripleOf(acall[r2]) =>
      /\ ~(InSequence(r1) /\ InSequence(r2))
      /\ ~(ReadBelow(r1) /\ ReadBelow(r2)
            /\ acall[r1].tx = "success" /\ acall[r2].tx \in {"pending", "success"})

\* Two sequences for one triple ran one after the other; the first left the
\* allowance insufficient (its approval failed), the second approved.
C10_Witness ==
  \E r1, r2 \in Calls :
    /\ r1 < r2
    /\ TripleOf(acall[r1]) = TripleOf(acall[r2])
    /\ Returned(r1) /\ ReadBelow(r1)
    /\ Returned(r2) /\ ReadBelow(r2) /\ acall[r2].tx = "success"

(***************************************************************************)
(* DEX selection: executeBestDEXSwap asks CoW and then Uniswap for a quote,*)
(* compares parseFloat of the two buyAmount strings and runs executeSwap   *)
(* on the service it chose.                                                *)
(*                                                                         *)
(* A quoted buyAmount is a decimal string.  parseFloat turns it into a     *)
(* double, which holds the leading 15 to 17 significant digits: `head` is  *)
(* what a double holds of the string, `tail` the digits after that         *)
(* (0 = none or all zero).  CoW formats afterSlippage.buyAmount with       *)
(* formatUnits, which prints every digit of the token's decimals (18 for   *)
(* most tokens); Uniswap prints toSignificant(6), so its tail is empty.    *)
(***************************************************************************)
COW == "cow"
UNI == "uni"
Adapters == {COW, UNI}

CowAmounts == [head : 1..MaxHead, tail : 0..MaxTail]
UniAmounts == [head : 1..MaxHead, tail : {0}]

NoQuote == [success |-> FALSE, buyAmount |-> [head |-> 0, tail |-> 0]]
Quoted(a) == [success |-> TRUE, buyAmount |-> a]

\* The decimal value order of two buyAmount strings.
Larger(a, b) == a.head > b.head \/ (a.head = b.head /\ a.tail > b.tail)

\* parseFloat(buyAmount): the tail is below the precision of a double.
ParseFloat(a) == a.head

RouterIdle == [pc |-> "idle", cowQuote |-> NoQuote, uniQuote |-> NoQuote,
               executed |-> {}, result |-> "none", reasons |-> {},
               completed |-> {}]

\* The adapters whose failure reason is in the message returned when no
\* quote succeeded: "Failed to get quotes from any DEX. Please try again
\* later." names none.
NoQuotesReasons == {}

RouterState == rcall = RouterIdle

\* swap_confirm calls executeBestDEXSwap.
ExecuteBestDEXSwap ==
  /\ rcall.pc \in {"idle", "done"}
  /\ rcall' = [RouterIdle EXCEPT !.pc = "cowQuote"]

\* A router that runs executeSwap on CoW as soon as CoW has quoted.
CowGetQuoteFirstSuccess(q) ==
  /\ rcall.pc = "cowQuote"
  /\ rcall' = IF q.success
                THEN [rcall EXCEPT !.pc = "executing", !.cowQuote = q,
                        !.completed = {COW}, !.executed = {COW}]
                ELSE [rcall EXCEPT !.pc = "uniQuote", !.cowQuote = q,
                        !.completed = {COW}]

\* await cowSwapService.getQuote(...): a quote, or {success: false}
\* (getQuote catches every error itself).  `completed` is the set of
\* services whose getQuote has returned.
CowGetQuote(q) ==
  /\ rcall.pc = "cowQuote"
  /\ rcall' = [rcall EXCEPT !.pc = "uniQuote", !.cowQuote = q,
                            !.completed = {COW}]

\* if (cowAmount > uniAmount) useCow = true else useCow = false; only one
\* quote: that service; no quote: return the failure.
UseCow(cowQuote, uniQuote) ==
  IF cowQuote.success /\ uniQuote.success
    THEN ParseFloat(cowQuote.buyAmount) > ParseFloat(uniQuote.buyAmount)
    ELSE cowQuote.success

\* await uniswapService.getQuote(...), then Step 2 and the call of
\* executeSwap on the chosen service (Step 3, up to its await).
UniGetQuoteAndChoose(q) ==
  /\ rcall.pc = "uniQuote"
  /\ rcall' =
       IF ~rcall.cowQuote.success /\ ~q.success
         THEN [rcall EXCEPT !.pc = "done", !.uniQuote = q, !.result = "failed",
                 !.reasons = NoQuotesReasons,
                 !.completed = @ \cup {UNI}]
         ELSE [rcall EXCEPT !.pc = "executing", !.uniQuote = q,
                 !.completed = @ \cup {UNI},
                 !.executed = IF UseCow(rcall.cowQuote, q) THEN {COW} ELSE {UNI}]

\* The awaited executeSwap returns its SwapResult.
ExecuteSwapReturns(ok) ==
  /\ rcall.pc = "executing"
  /\ rcall' = [rcall EXCEPT !.pc = "done",
                            !.result = IF ok THEN "success" ELSE "failed"]

RouterNext ==
  \/ ExecuteBestDEXSwap
  \/ \E q \in {NoQuote} \cup {Quoted(a) : a \in CowAmounts} : CowGetQuote(q)
  \/ \E q \in {NoQuote} \cup {Quoted(a) : a \in UniAmounts} : UniGetQuoteAndChoose(q)
  \/ \E ok \in BOOLEAN : ExecuteSwapReturns(ok)

QuoteOf(x) == IF x = COW THEN rcall.cowQuote ELSE rcall.uniQuote

\* C3: executeSwap is invoked on one adapter only, one whose quote
\* succeeded, and no other successful quote has a larger buyAmount.
C3_BestQuoteExecuted ==
  /\ Cardinality(rcall.executed) <= 1
  /\ \A x \in rcall.executed :
       /\ QuoteOf(x).success
       /\ \A y \in Adapters :
            QuoteOf(y).success => ~Larger(QuoteOf(y).buyAmount, QuoteOf(x).buyAmount)

\* C21: the venue is decided, and executeSwap invoked, only after the
\* getQuote of every adapter has returned, with a quote or with an error;
\* a first successful quote alone never leads to an execution.
C21_DecidesAfterAllQuotes ==
  /\ rcall.executed # {} => rcall.completed = Adapters
  /\ rcall.pc \in {"executing", "done"} => rcall.completed = Adapters

\* CoW quoted first and successfully, Uniswap failed afterwards, and the
\* swap ran on CoW.
C21_Witness ==
  /\ rcall.pc = "done" /\ rcall.executed = {COW}
  /\ rcall.cowQuote.success /\ ~rcall.uniQuote.success
  /\ rcall.completed = Adapters

\* C20: when every adapter failed to quote, the call fails with an error
\* that lists the failure reason of every adapter, and executeSwap is not
\* invoked.
C20_NoLiquidityListsEveryReason ==
  rcall.pc = "done" /\ ~rcall.cowQuote.success /\ ~rcall.uniQuote.success =>
    /\ rcall.result = "failed"
    /\ rcall.executed = {}
    /\ rcall.reasons = Adapters

(***************************************************************************)
(* executeSwap of CowSwapService and UniswapService: token lookup, balance *)
(* check, allowance, preparation of the trade, submission (CoW:            *)
(* postSwapOrderFromQuote; Uniswap: sendTransaction) and settlement.       *)
(***************************************************************************)
SwapIdle ==
  [pc |-> "idle", svc |-> COW, native |-> FALSE, amount |-> 1,
   balanceRead |-> FALSE, hasBalance |-> FALSE, allowanceInvoked |-> FALSE,
   approvals |-> 0, submitted |-> FALSE, result |-> "none",
   caught |-> FALSE, observed |-> "none", onOrderCreated |-> FALSE, created |-> 0]

SwapState == balance = 0 /\ xcall = SwapIdle

\* A variant that never calls the allowance step.
NeverEnsuresAllowance(svc, native) == TRUE

\* Uniswap: if (!isInputNative) ensureTokenAllowance(...); CoW calls
\* checkAndApproveToken for every sell token.
SkipsAllowance(svc, native) == svc = UNI /\ native

\* checkTokenBalance.  Uniswap reads getBalance for the native asset and
\* balanceOf for a token; CoW calls balanceOf on every sell token address,
\* which throws for an address that is no token contract.  A throw (ok =
\* FALSE) is caught and gives false.
HasBalance(svc, native, bal, amount, ok) ==
  IF svc = COW /\ native THEN FALSE ELSE ok /\ bal >= amount

\* An executeSwap whose try blocks begin at the submission: a throw of an
\* earlier step leaves the call as an exception.
ThrowsBeforeSubmission(step) ==
  IF step \in {"submit", "settle"} THEN "failed" ELSE "thrown"

\* What executeSwap makes of a step that throws.  The whole body is inside
\* `try { ... } catch (error) { return {success: false, ...} }`, the steps
\* from the quote on inside a second try with its own catch: every throw
\* becomes a returned failure.
OnThrow(step) == "failed"

\* The result of a step that failed: it returned a failure, or it threw.
FailureOf(step, threw) == IF threw THEN OnThrow(step) ELSE "failed"

\* What the settlement can show: the status monitorOrderExecution returns
\* for the order (CoW), the status of the receipt of tx.wait() (Uniswap).
Observations(svc) ==
  IF svc = COW THEN {"FULFILLED", "CANCELLED", "EXPIRED", "TIMEOUT"}
  ELSE {"status 1", "status 0"}

\* orderResult.status === OrderStatus.FULFILLED / receipt.status === 1.
Succeeds(svc, observed) ==
  IF svc = COW THEN observed = "FULFILLED" ELSE observed = "status 1"

\* A variant that calls the callback before it knows that the order was
\* posted or the transaction sent.
InvokesCallbackUnposted(posted, given) == given

\* `if (onOrderCreated) await onOrderCreated(...)` on the line after
\* postSwapOrderFromQuote() / sendTransaction(...) returned.
InvokesCallback(posted, given) == posted /\ given

\* executeSwap is called; findToken fails for a symbol the list does not
\* have (found = FALSE) and executeSwap returns the failure.
ExecuteSwap(svc, native, amount, found) ==
  /\ xcall.pc \in {"idle", "done"}
  /\ \E given, threw \in BOOLEAN :
       /\ threw => ~found
       /\ xcall' = [SwapIdle EXCEPT !.svc = svc, !.native = native, !.amount = amount,
                      !.onOrderCreated = given,
                      !.pc = IF found THEN "balance" ELSE "done",
                      !.caught = threw,
                      !.result = IF found THEN "none" ELSE FailureOf("find", threw)]
  /\ UNCHANGED balance

CheckTokenBalance(ok) ==
  /\ xcall.pc = "balance"
  /\ LET has == HasBalance(xcall.svc, xcall.native, balance, xcall.amount, ok)
     IN xcall' = [xcall EXCEPT
          !.balanceRead = TRUE,
          !.hasBalance = has,
          !.pc = IF ~has THEN "done"
                 ELSE IF SkipsAllowance(xcall.svc, xcall.native) THEN "prepare"
                 ELSE "allowance",
          !.result = IF has THEN "none" ELSE "failed"]
  /\ UNCHANGED balance

\* The awaited checkAndApproveToken / ensureTokenAllowance returns: the
\* allowance was sufficient, or an approval was attempted and confirmed, or
\* the call failed before or in the approval (both catch their own errors
\* and return the failure).
EnsureAllowanceReturns(outcome, attempted) ==
  /\ xcall.pc = "allowance"
  /\ outcome = "sufficient" => ~attempted
  /\ outcome = "approved" => attempted
  /\ xcall' = [xcall EXCEPT
       !.allowanceInvoked = TRUE,
       !.approvals = IF attempted THEN 1 ELSE 0,
       !.pc = IF outcome = "failed" THEN "done" ELSE "prepare",
       !.result = IF outcome = "failed" THEN "failed" ELSE "none"]
  /\ UNCHANGED balance

\* CoW: cowSdk.getQuote; Uniswap: findWorkingPool, the trade and estimateGas.
PrepareTrade(ok) ==
  /\ xcall.pc = "prepare"
  /\ \E threw \in BOOLEAN :
       /\ threw => ~ok
       /\ xcall' = [xcall EXCEPT
            !.pc = IF ok THEN "submit" ELSE "done",
            !.caught = threw,
            !.result = IF ok THEN "none" ELSE FailureOf("prepare", threw)]
  /\ UNCHANGED balance

\* CoW: postSwapOrderFromQuote(); Uniswap: ethWallet.sendTransaction(...).
\* A failure here is a throw.  Then the callback, if one was passed, is
\* awaited; a callback that throws (returned = FALSE) ends the call in the
\* same catch.
SubmitOrder(ok) ==
  /\ xcall.pc = "submit"
  /\ \E returned \in BOOLEAN :
       LET invoked == InvokesCallback(ok, xcall.onOrderCreated)
           goesOn == ok /\ (invoked => returned)
       IN /\ ~invoked => returned
          /\ xcall' = [xcall EXCEPT
               !.pc = IF goesOn THEN "settle" ELSE "done",
               !.submitted = ok,
               !.created = IF invoked THEN @ + 1 ELSE @,
               !.caught = ~goesOn,
               !.result = IF goesOn THEN "none" ELSE FailureOf("submit", TRUE)]
  /\ UNCHANGED balance

\* CoW: the monitor's result; Uniswap: the receipt of tx.wait().
SettleOrder(ok) ==
  /\ xcall.pc = "settle"
  /\ ok => balance >= xcall.amount
  /\ \E observed \in Observations(xcall.svc), threw \in BOOLEAN :
       /\ ok = (Succeeds(xcall.svc, observed) /\ ~threw)
       /\ xcall' = [xcall EXCEPT
            !.pc = "done",
            !.observed = observed,
            !.caught = threw,
            !.result = IF ok THEN "success" ELSE FailureOf("settle", threw)]
  /\ balance' = IF ok THEN balance - xcall.amount ELSE balance

\* The wallet receives or spends the sell asset outside the bot.
BalanceChanges(b) ==
  /\ b # balance
  /\ balance' = b
  /\ UNCHANGED xcall

SwapNext ==
  \/ \E svc \in Adapters, native \in BOOLEAN, amount \in 1..MaxAmount, found \in BOOLEAN :
        ExecuteSwap(svc, native, amount, found)
  \/ \E ok \in BOOLEAN : CheckTokenBalance(ok)
  \/ \E outcome \in {"sufficient", "approved", "failed"}, attempted \in BOOLEAN :
        EnsureAllowanceReturns(outcome, attempted)
  \/ \E ok \in BOOLEAN : PrepareTrade(ok)
  \/ \E ok \in BOOLEAN : SubmitOrder(ok)
  \/ \E ok \in BOOLEAN : SettleOrder(ok)
  \/ \E b \in 0..MaxAmount : BalanceChanges(b)

\* C6: when executeSwap is about to submit or has submitted an order or a
\* transaction, a balance read has found the balance sufficient; for a
\* non-native sell asset the allowance step has been invoked, for a native
\* one it has not and no approval was attempted.
C6_PreflightBeforeSubmit ==
  xcall.pc = "submit" \/ xcall.submitted =>
    /\ xcall.balanceRead /\ xcall.hasBalance
    /\ ~xcall.native => xcall.allowanceInvoked
    /\ xcall.native => ~xcall.allowanceInvoked /\ xcall.approvals = 0

\* A token swap was submitted after an approval.
C6_Witness ==
  xcall.submitted /\ ~xcall.native /\ xcall.allowanceInvoked /\ xcall.approvals = 1

\* A swap of the native asset was submitted (Uniswap).
C6_NativeSubmitted == xcall.submitted /\ xcall.native

\* C33: executeSwap of either service never ends in an exception: a call
\* that has ended has returned a SwapResult, and the result is a success
\* only when the order was observed FULFILLED (CoW) or the receipt has
\* status 1 (Uniswap).
C33_ExecuteSwapNeverThrows ==
  /\ xcall.result # "thrown"
  /\ xcall.pc = "done" => xcall.result \in {"success", "failed"}
  /\ xcall.result = "success" =>
        /\ xcall.submitted
        /\ xcall.observed = IF xcall.svc = COW THEN "FULFILLED" ELSE "status 1"

\* A step before the submission threw, and executeSwap returned a failure.
C33_Witness ==
  /\ xcall.pc = "done" /\ xcall.caught /\ ~xcall.submitted
  /\ xcall.result = "failed"

\* C34: onOrderCreated is invoked at most once in a call, only when the
\* order was posted or the transaction sent, and by the time the call
\* waits for the settlement a callback that was passed has been invoked.
C34_CallbackOnceAfterSubmission ==
  /\ xcall.created <= 1
  /\ xcall.created = 1 => xcall.submitted /\ xcall.onOrderCreated
  /\ xcall.pc = "settle" /\ xcall.onOrderCreated => xcall.created = 1

\* The callback was invoked once and the call now waits for the settlement.
C34_Witness ==
  xcall.pc = "settle" /\ xcall.created = 1 /\ xcall.submitted

(***************************************************************************)
(* Order monitor: CowSwapService.monitorOrderExecution polls getOrder in a *)
(* loop `while (Date.now() - startTime < timeout)` and sleeps 10 s after a *)
(* poll that did not return.  executeSwap maps its result to a SwapResult  *)
(* and swap_confirm tells the user.                                        *)
(***************************************************************************)
OPEN == "OPEN"
PRESIGNATURE_PENDING == "PRESIGNATURE_PENDING"
FULFILLED == "FULFILLED"
CANCELLED == "CANCELLED"
EXPIRED == "EXPIRED"
TIMEOUT == "TIMEOUT"
Terminal == {FULFILLED, CANCELLED, EXPIRED}

\* timeout: number = 60 * 10_000
DefaultTimeoutMs == 60 * 10000
\* setTimeout(resolve, 10000)
PollSleepMs == 10000

Timeouts == {ShortTimeoutMs, DefaultTimeoutMs}
Latencies == {0, MaxLatency}

\* A field the returned object does not have.
Undefined == -1

NoResult == [status |-> "none", executedSellAmount |-> Undefined,
             executedBuyAmount |-> Undefined]

MonitorIdle ==
  [pc |-> "idle", startTime |-> 0, timeout |-> 0, polls |-> 0,
   seen |-> "none", seenAtPoll |-> 0, lastPollAt |-> 0,
   result |-> NoResult, returnedAt |-> 0]

\* The order was posted with the SDK's default, fill-or-kill: nothing is
\* executed until it is fulfilled.
NewOrder(status) == [status |-> status, executedSellAmount |-> 0, executedBuyAmount |-> 0]

MonitorState ==
  /\ now = 0
  /\ cowOrder = NewOrder(OPEN)
  /\ mon = MonitorIdle
  /\ swapResult = "none"
  /\ reply = "none"

\* A loop that returns for a fulfilled order only.
EndsMonitoringFulfilledOnly(status) == status = FULFILLED

\* The cases of the switch that return.
EndsMonitoring(status) == status \in Terminal

\* The object a returning case returns.
ResultOf(order) ==
  IF order.status = FULFILLED
    THEN [status |-> FULFILLED, executedSellAmount |-> order.executedSellAmount,
          executedBuyAmount |-> order.executedBuyAmount]
    ELSE [NoResult EXCEPT !.status = order.status]

\* The first status in FULFILLED, CANCELLED, EXPIRED that a poll saw, and the
\* number of the poll that saw it.
Observed(seen, status) ==
  IF seen = "none" /\ status \in Terminal THEN status ELSE seen
ObservedAt(seen, seenAtPoll, status, poll) ==
  IF seen = "none" /\ status \in Terminal THEN poll ELSE seenAtPoll

\* executeSwap calls monitorOrderExecution: const startTime = Date.now().
MonitorOrderExecution(timeout) ==
  /\ mon.pc = "idle"
  /\ mon' = [mon EXCEPT !.pc = "check", !.startTime = now, !.timeout = timeout]
  /\ UNCHANGED <<now, cowOrder, swapResult, reply>>

\* while (Date.now() - startTime < timeout): enter the body and call
\* getOrder, or leave the loop and return TIMEOUT.
LoopCheck ==
  /\ mon.pc = "check"
  /\ mon' = IF now - mon.startTime < mon.timeout
              THEN [mon EXCEPT !.pc = "poll", !.polls = @ + 1, !.lastPollAt = now]
              ELSE [mon EXCEPT !.pc = "done", !.returnedAt = now,
                               !.result = [NoResult EXCEPT !.status = TIMEOUT]]
  /\ UNCHANGED <<now, cowOrder, swapResult, reply>>

\* await orderBookApi.getOrder(orderId) settles after `latency` ms: with the
\* order (ok), or it throws and the catch logs the error.
PollReturns(latency, ok) ==
  /\ mon.pc = "poll"
  /\ now' = now + latency
  /\ mon' = IF ok /\ EndsMonitoring(cowOrder.status)
              THEN [mon EXCEPT !.pc = "done", !.returnedAt = now',
                      !.seen = Observed(mon.seen, cowOrder.status),
                      !.seenAtPoll = ObservedAt(mon.seen, mon.seenAtPoll, cowOrder.status, mon.polls),
                      !.result = ResultOf(cowOrder)]
            ELSE IF ok
              THEN [mon EXCEPT !.pc = "sleep",
                      !.seen = Observed(mon.seen, cowOrder.status),
                      !.seenAtPoll = ObservedAt(mon.seen, mon.seenAtPoll, cowOrder.status, mon.polls)]
            ELSE [mon EXCEPT !.pc = "sleep"]
  /\ UNCHANGED <<cowOrder, swapResult, reply>>

\* await new Promise((resolve) => setTimeout(resolve, 10000))
Sleep ==
  /\ mon.pc = "sleep"
  /\ now' = now + PollSleepMs
  /\ mon' = [mon EXCEPT !.pc = "check"]
  /\ UNCHANGED <<cowOrder, swapResult, reply>>

\* The order book: a pre-signature order opens; an open order is filled in
\* full, cancelled or expires.
OrderChanges(status, amount) ==
  /\ mon.pc \in {"check", "poll", "sleep"}
  /\ cowOrder.status \notin Terminal
  /\ status # cowOrder.status
  /\ cowOrder.status = OPEN => status # PRESIGNATURE_PENDING
  /\ cowOrder' = IF status = FULFILLED
                   THEN [status |-> status, executedSellAmount |-> amount,
                         executedBuyAmount |-> amount]
                   ELSE NewOrder(status)
  /\ UNCHANGED <<now, mon, swapResult, reply>>

\* executeSwap, after the await of the monitor: FULFILLED gives success:
\* true; CANCELLED, EXPIRED and the final else give success: false.
ExecuteSwapMapsResult ==
  /\ mon.pc = "done"
  /\ swapResult = "none"
  /\ swapResult' = IF mon.result.status = FULFILLED THEN "success" ELSE "failure"
  /\ UNCHANGED <<now, cowOrder, mon, reply>>

\* swap_confirm: "Swap successful!" if swapResult.success, else "Swap failed!".
SwapConfirmReplies ==
  /\ swapResult # "none"
  /\ reply = "none"
  /\ reply' = IF swapResult = "success" THEN "Swap successful!" ELSE "Swap failed!"
  /\ UNCHANGED <<now, cowOrder, mon, swapResult>>

MonitorNext ==
  \/ \E timeout \in Timeouts : MonitorOrderExecution(timeout)
  \/ LoopCheck
  \/ \E latency \in Latencies, ok \in BOOLEAN : PollReturns(latency, ok)
  \/ Sleep
  \/ \E status \in {OPEN} \cup Terminal, amount \in 1..MaxAmount : OrderChanges(status, amount)
  \/ ExecuteSwapMapsResult
  \/ SwapConfirmReplies

TimedOut == mon.pc = "done" /\ mon.result.status = TIMEOUT

\* C7: a monitor whose timeout elapses returns TIMEOUT, and the code that
\* consumes that result does not treat it as a failure: executeSwap does not
\* return success: false for it and the user is not told the swap failed.
C7_TimeoutNotTreatedAsFailure ==
  TimedOut => swapResult # "failure" /\ reply # "Swap failed!"

TimeoutBounds ==
  TimedOut =>
    /\ mon.returnedAt - mon.startTime >= mon.timeout
    /\ mon.polls > 0 => mon.lastPollAt - mon.startTime < mon.timeout
    /\ mon.returnedAt - mon.startTime < mon.timeout + PollSleepMs + MaxLatency

\* C9: against an order that never reaches a terminal status the monitor
\* returns TIMEOUT no earlier than the timeout and at most the time of one
\* poll in flight after it, and starts no poll once the timeout has elapsed.
C9_TimeoutWithinEpsilon ==
  TimedOut =>
    /\ mon.returnedAt - mon.startTime >= mon.timeout
    /\ mon.returnedAt - mon.startTime <= mon.timeout + MaxLatency
    /\ mon.polls > 0 => mon.lastPollAt - mon.startTime < mon.timeout

(***************************************************************************)
(* Transactions of a wallet.  A swap_confirm handler awaits executeSwap,   *)
(* which awaits the approval (approve, then tx.wait()) before it submits   *)
(* the swap: Uniswap sends a transaction and awaits its receipt, CoW posts *)
(* a signed order, which is no transaction of the wallet.                  *)
(***************************************************************************)
WalletState ==
  /\ pending = [w \in Wallets |-> 0]
  /\ wcall = [r \in Calls |->
       [pc |-> "new", wallet |-> 1, svc |-> COW, txs |-> 0, result |-> "none"]]

\* A dispatcher that starts a handler while another one is running.
HandleSwapsConcurrently == TRUE

\* bot.start(): one update at a time.
MayHandleSwapConfirm == \A r \in Calls : wcall[r].pc \in {"new", "done"}

\* swap_confirm calls executeSwap for the session's wallet; the allowance
\* is sufficient, or an approval is needed (and the sell token is no native
\* asset).
SwapConfirm(r, w, svc, needsApproval) ==
  /\ wcall[r].pc = "new"
  /\ \A q \in Calls : q < r => wcall[q].pc # "new"
  /\ MayHandleSwapConfirm
  /\ wcall' = [wcall EXCEPT ![r] =
       [pc |-> IF needsApproval THEN "approve" ELSE "swap", wallet |-> w,
        svc |-> svc, txs |-> 0, result |-> "none"]]
  /\ UNCHANGED pending

\* tokenContract.approve(...) sends the approval.
SendApprovalTx(r) ==
  /\ wcall[r].pc = "approve"
  /\ pending' = [pending EXCEPT ![wcall[r].wallet] = @ + 1]
  /\ wcall' = [wcall EXCEPT ![r].pc = "approveWait", ![r].txs = @ + 1]

\* await tx.wait() of the approval: mined, or reverted and executeSwap
\* returns the failure.
ApprovalTxMined(r, ok) ==
  /\ wcall[r].pc = "approveWait"
  /\ pending' = [pending EXCEPT ![wcall[r].wallet] = @ - 1]
  /\ wcall' = [wcall EXCEPT ![r].pc = IF ok THEN "swap" ELSE "done",
                            ![r].result = IF ok THEN "none" ELSE "failed"]

\* Uniswap: ethWallet.sendTransaction(...); CoW: postSwapOrderFromQuote().
SendSwap(r) ==
  /\ wcall[r].pc = "swap"
  /\ pending' = IF wcall[r].svc = UNI
                  THEN [pending EXCEPT ![wcall[r].wallet] = @ + 1]
                  ELSE pending
  /\ wcall' = [wcall EXCEPT ![r].pc = "swapWait",
                            ![r].txs = IF wcall[r].svc = UNI THEN @ + 1 ELSE @]

\* Uniswap: await tx.wait(); CoW: the awaited monitor returns.
SwapSettled(r, ok) ==
  /\ wcall[r].pc = "swapWait"
  /\ pending' = IF wcall[r].svc = UNI
                  THEN [pending EXCEPT ![wcall[r].wallet] = @ - 1]
                  ELSE pending
  /\ wcall' = [wcall EXCEPT ![r].pc = "done",
                            ![r].result = IF ok THEN "success" ELSE "failed"]

WalletNext ==
  \/ \E r \in Calls, w \in Wallets, svc \in Adapters, needsApproval \in BOOLEAN :
        SwapConfirm(r, w, svc, needsApproval)
  \/ \E r \in Calls : SendApprovalTx(r)
  \/ \E r \in Calls, ok \in BOOLEAN : ApprovalTxMined(r, ok)
  \/ \E r \in Calls : SendSwap(r)
  \/ \E r \in Calls, ok \in BOOLEAN : SwapSettled(r, ok)

LoopState == processing = [i \in 1..MaxOrders |-> 0]

\* One of the runs of the order's instance starts to act on the order.
LoopBegin(i) ==
  /\ LoopHandles(i)
  /\ orders[i].status = "locked"
  /\ processing[i] < gardens[orders[i].garden].loops
  /\ processing' = [processing EXCEPT ![i] = @ + 1]
  /\ UNCHANGED gvars

\* A run finishes: the order is redeemed, or refunded after its timelock,
\* unless another run settled it in the meantime.
LoopEnd(i) ==
  /\ processing[i] > 0
  /\ processing' = [processing EXCEPT ![i] = @ - 1]
  /\ orders' = IF orders[i].status # "locked" THEN orders
               ELSE IF orders[i].expired
                 THEN [orders EXCEPT ![i].status = "refunded", ![i].refunds = @ + 1]
               ELSE [orders EXCEPT ![i].status = "redeemed"]
  /\ UNCHANGED <<gardens, garden, listenersInitialized, orderUserMap, gcall>>

LoopNext ==
  \/ GardenNext /\ UNCHANGED pvars
  \/ \E i \in 1..MaxOrders : LoopBegin(i)
  \/ \E i \in 1..MaxOrders : LoopEnd(i)

\* executeSwap has returned a success.
ReportedSuccess == gcall.pc = "idle" /\ gcall.result.kind = "success"

C17_DepositAddressNotFunded ==
  ReportedSuccess /\ gcall.result.isBitcoinSource =>
    /\ gcall.result.depositAddress
    /\ orders[gcall.result.order].status = "created"

\* The "success" / "error" listeners reach the user of order i: they are
\* attached to the instance that emits the order's events, and orderUserMap
\* has the order.
Notifies(i) ==
  /\ i <= Len(orderUserMap)
  /\ gardens[orders[i].garden].listeners

\* Listeners that send to the user of the first order, whatever the order.
NotifiedUserOfFirstOrder(i) == IF orderUserMap = <<>> THEN 0 ELSE orderUserMap[1]

\* const userId = this.orderUserMap.get(order.create_order.create_id): the
\* user the "success" and "error" listeners send their message to; 0 when
\* the map has no entry for the order, and then no message is sent.
NotifiedUser(i) == IF i <= Len(orderUserMap) THEN orderUserMap[i] ELSE 0

\* C38: a notification about a cross-chain order goes to the user whose
\* call created the order: the map has entries only for orders that
\* garden.swap created, and each entry is, and stays, the user of the call
\* that created the order.
C38_NotificationsToCreator ==
  /\ Len(orderUserMap) <= Len(orders)
  /\ \A i \in 1..Len(orderUserMap) : orderUserMap[i] = orders[i].user
  /\ \A i \in 1..Len(orders) : NotifiedUser(i) \in {0, orders[i].user}

\* Two users created an order each, both orders are in the map, and the
\* first order was redeemed: the lookup for its event gives the first user.
C38_Witness ==
  /\ Len(orderUserMap) = 2 /\ orders[1].user # orders[2].user
  /\ orders[1].status = "redeemed"
  /\ NotifiedUser(1) = orders[1].user /\ NotifiedUser(2) = orders[2].user

\* C15: every state transition of a tracked swap invokes the registered
\* notification callback, also for swaps created after configureWallets.
C15_EveryTransitionNotified ==
  [][\A i \in 1..MaxOrders :
       i <= Len(orders) /\ orders'[i].status # orders[i].status => Notifies(i)]_vars

\* C14: every swap the service created that is not yet redeemed or refunded
\* is among the swaps a run of the settlement loop scans.
C14_NonTerminalSwapsScanned ==
  \A i \in 1..MaxOrders :
    i <= Len(orders) /\ ~Settled(i) => LoopHandles(i)

\* The runs of execute() started so far, over the first n instances.
RECURSIVE LoopsStarted(_, _)
LoopsStarted(gs, n) == IF n = 0 THEN 0 ELSE gs[n].loops + LoopsStarted(gs, n - 1)

\* C13: at every moment at most one settlement loop exists in the process;
\* in particular the state right after the construction of the service
\* object has no second loop.
C13_AtMostOneSettlementLoop ==
  LoopsStarted(gardens, Len(gardens)) <= 1

\* The state of the CrossChainSwap state machine an order is in.
StateOf(o) ==
  CASE o.status = "created" -> "CREATED"
    [] o.status = "locked" -> "SOURCE_INITIATED"
    [] o.status = "redeemed" -> "REDEEMED"
    [] o.status = "refunded" -> "REFUNDED"

\* The edges of the state machine.
AllowedEdge(a, b) ==
  \/ a = "QUOTED" /\ b = "CREATED"
  \/ a = "CREATED" /\ b \in {"SOURCE_INITIATED", "AWAITING_DEPOSIT"}
  \/ a \in {"SOURCE_INITIATED", "AWAITING_DEPOSIT"} /\ b = "REDEEMED"
  \/ a = "REDEEMED" /\ b = "COMPLETE"
  \/ a \notin {"COMPLETE", "REFUNDED", "ERRORED"} /\ b \in {"REFUNDED", "ERRORED"}

C19_FailuresAreValues ==
  [][/\ gcall'.result.kind # "thrown"
     /\ gcall.pc # "idle" /\ gcall'.result.kind = "failure" =>
          orders' = orders /\ orderUserMap' = orderUserMap]_vars

\* executeSwap returned a failure for a swap whose order had been created
\* (its initiate or its funding failed).
C19_Witness ==
  /\ gcall.pc = "idle" /\ gcall.result.kind = "failure"
  /\ orders # <<>> /\ orders[Len(orders)].status = "created"

\* C29: executeSwap for a pair of chains that is not supported returns the
\* failure at once: no wallet is configured (no new Garden instance), no
\* quote is requested and no order is created.
C29_UnsupportedPairFailsFirst ==
  [][\A u \in Users, from \in BlockchainType, to \in BlockchainType, hasKey \in BOOLEAN :
       ExecuteSwapStart(u, from, to, hasKey) /\ ~Supported(from, to) =>
         /\ gcall'.pc = "idle" /\ gcall'.result.kind = "failure"
         /\ UNCHANGED <<gardens, garden, listenersInitialized, orders, orderUserMap>>]_vars

\* The first executeSwap of the process was for an unsupported pair: it
\* failed and the service still has the instance it was constructed with.
C29_Witness ==
  /\ gcall.pc = "idle" /\ gcall.result.kind = "failure"
  /\ Len(gardens) = 1 /\ orders = <<>>

\* C12: two runs of the settlement loop never act on one swap at the same
\* time.
C12_NoSwapProcessedTwiceAtOnce ==
  \A i \in 1..MaxOrders : processing[i] <= 1

(***************************************************************************)
(* Specifications.  Each one runs one part of the bot and leaves the state *)
(* of the other parts as it is after start-up.                             *)
(***************************************************************************)
(* The end-to-end scenario: one swap_confirm of an ERC-20 sell token, from *)
(* executeBestDEXSwap through both getQuote calls to the executeSwap of    *)
(* the chosen service.  It composes the steps above at their call sites:   *)
(* UniswapService.getQuote checks the balance and calls                    *)
(* ensureTokenAllowance itself before it looks for a pool, and executeSwap *)
(* of either service calls its own allowance step.  Call 1 of acall is the *)
(* one made by getQuote, call 2 the one made by executeSwap.               *)
(***************************************************************************)
QuoteA == [head |-> 95, tail |-> 0]
QuoteB == [head |-> 102, tail |-> 0]
ScenarioAmounts == {QuoteA, QuoteB}

\* The field of the SwapResult that identifies what was submitted: CoW
\* returns orderId, Uniswap returns txHash and no orderId.
ReturnsOrderId(svc) == svc = COW

\* The approval transactions sent so far.
ApprovalTxs == Cardinality({r \in Calls : acall[r].tx # "none"})

\* The adapter that quoted the larger amount of the scenario.
AdapterB == IF rcall.cowQuote.buyAmount = QuoteB THEN COW ELSE UNI

ScenarioNext ==
  \/ /\ rcall.pc = "idle"
     /\ \E b \in 0..MaxAmount : BalanceChanges(b)
     /\ UNCHANGED <<gvars, avars, rvars, mvars, wvars, pvars, kvars, fvars, svars, cvars>>
  \/ /\ rcall.pc = "idle" /\ balance >= 1
     /\ ExecuteBestDEXSwap
     /\ UNCHANGED <<gvars, avars, xvars, mvars, wvars, pvars, kvars, fvars, svars, cvars>>
  \/ /\ \E a \in ScenarioAmounts : CowGetQuote(Quoted(a))
     /\ UNCHANGED <<gvars, avars, xvars, mvars, wvars, pvars, kvars, fvars, svars, cvars>>
  \/ /\ rcall.pc = "uniQuote"
     /\ CallEnsureAllowance(1, UNI, 1, FALSE, 1)
     /\ UNCHANGED <<gvars, rvars, xvars, mvars, wvars, pvars, kvars, fvars, svars, cvars>>
  \/ /\ \E r \in 1..2, ok \in BOOLEAN : ReadAllowance(r, ok)
     /\ UNCHANGED <<gvars, rvars, xvars, mvars, wvars, pvars, kvars, fvars, svars, cvars>>
  \/ /\ \E r \in 1..2, ok \in BOOLEAN : SendApproval(r, ok)
     /\ UNCHANGED <<gvars, rvars, xvars, mvars, wvars, pvars, kvars, fvars, svars, cvars>>
  \/ /\ \E r \in 1..2, ok \in BOOLEAN : WaitApproval(r, ok)
     /\ UNCHANGED <<gvars, rvars, xvars, mvars, wvars, pvars, kvars, fvars, svars, cvars>>
  \/ /\ acall[1].pc = "done"
     /\ UniGetQuoteAndChoose(
          IF acall[1].ret = "approved"
            THEN Quoted(CHOOSE a \in ScenarioAmounts : a # rcall.cowQuote.buyAmount)
            ELSE NoQuote)
     /\ UNCHANGED <<gvars, avars, xvars, mvars, wvars, pvars, kvars, fvars, svars, cvars>>
  \/ /\ rcall.pc = "executing" /\ xcall.pc = "idle"
     /\ \E svc \in rcall.executed : ExecuteSwap(svc, FALSE, 1, TRUE)
     /\ UNCHANGED <<gvars, avars, rvars, mvars, wvars, pvars, kvars, fvars, svars, cvars>>
  \/ /\ \E ok \in BOOLEAN : CheckTokenBalance(ok)
     /\ UNCHANGED <<gvars, avars, rvars, mvars, wvars, pvars, kvars, fvars, svars, cvars>>
  \/ /\ xcall.pc = "allowance"
     /\ CallEnsureAllowance(2, xcall.svc, 1, FALSE, 1)
     /\ UNCHANGED <<gvars, rvars, xvars, mvars, wvars, pvars, kvars, fvars, svars, cvars>>
  \/ /\ acall[2].pc = "done"
     /\ EnsureAllowanceReturns(
          IF acall[2].ret = "failed" THEN "failed"
          ELSE IF acall[2].approveCalls = 0 THEN "sufficient" ELSE "approved",
          acall[2].approveCalls > 0)
     /\ UNCHANGED <<gvars, avars, rvars, mvars, wvars, pvars, kvars, fvars, svars, cvars>>
  \/ /\ \E ok \in BOOLEAN : PrepareTrade(ok) \/ SubmitOrder(ok) \/ SettleOrder(ok)
     /\ UNCHANGED <<gvars, avars, rvars, mvars, wvars, pvars, kvars, fvars, svars, cvars>>
  \/ /\ xcall.pc = "done"
     /\ ExecuteSwapReturns(xcall.result = "success")
     /\ UNCHANGED <<gvars, avars, xvars, mvars, wvars, pvars, kvars, fvars, svars, cvars>>

\* The scenario ran to a successful end: both services quoted, the swap was
\* executed and settled.
ScenarioSucceeded ==
  /\ rcall.pc = "done" /\ rcall.result = "success"
  /\ rcall.cowQuote.success /\ rcall.uniQuote.success

\* C22: in the end-to-end scenario (allowance 0, one adapter quotes 95, the
\* other 102) the system sends exactly one approval transaction, executes
\* on the adapter that quoted 102 and returns an order id for the order
\* that is then monitored up to FULFILLED.
C22_EndToEndScenario ==
  ScenarioSucceeded =>
    /\ ApprovalTxs = 1
    /\ rcall.executed = {AdapterB}
    /\ ReturnsOrderId(AdapterB)

\* C32: while executeBestDEXSwap is requesting the quotes (before it
\* calls executeSwap) no approval transaction has been sent.
C32_QuoteSendsNoTransaction ==
  rcall.pc \in {"cowQuote", "uniQuote"} => ApprovalTxs = 0

(***************************************************************************)
(* Wallets: BitcoinService and EthereumService.  getUserSeed is            *)
(* HMAC-SHA256(CONFIG.SERVER_SECRET, telegramId) as 64 hex digits.  A      *)
(* digest is kept as what the code reads of it: `segment` is the value of  *)
(* its first 8 hex digits modulo 2^31 (0..MaxSegment stands for            *)
(* 0..2^31 - 1), `other` is the rest of the digest (the top bit of the     *)
(* first 8 digits and the 56 digits after them).  Distinct users have      *)
(* distinct digests; their segments may be equal.                          *)
(*                                                                         *)
(* A wallet is named by what its key is derived from: the root (the seed   *)
(* of CONFIG.MASTER_MNEMONIC, or a mnemonic or a raw key made of the       *)
(* user's digest) and the path below the root.  Key derivation and address *)
(* computation of the libraries are taken to be injective.  The services   *)
(* modelled are the ones that read CONFIG.MASTER_MNEMONIC.                 *)
(***************************************************************************)
Digests == [segment : 0..MaxSegment, other : 0..1]
NoDigest == [segment |-> 0, other |-> 0]
Indices == 0..MaxIndex

\* The digests of SERVER_SECRET: a function of the user id without
\* collisions.
UserSeeds == {f \in [Users -> Digests] : \A u, v \in Users : u # v => f[u] # f[v]}

\* getUserSeed(telegramId)
GetUserSeed(u) == userSeed[u]

\* A user part that is the same for every user.
UserPartOfNobody(seed) == 0

\* parseInt(userSeed.slice(0, 8), 16) % 2147483648
UserPart(seed) == seed.segment

\* Bitcoin: m/44'/0'/...; Ethereum: m/44'/60'/...
CoinType(c) == IF c = ETHEREUM THEN 60 ELSE 0

\* A derivation that moves on with every wallet handed out.
GetUserWalletByHistory(u, c, i) ==
  [root |-> "master", entropy |-> NoDigest, purpose |-> 44, coin |-> CoinType(c),
   account |-> UserPart(GetUserSeed(u)), index |-> i + Len(handed)]

\* getUserWallet of the services that read CONFIG.MASTER_MNEMONIC:
\* hdkey.derive(`m/44'/coin'/${userPart}'/0/${walletIndex}`).
GetUserWallet(u, c, i) ==
  [root |-> "master", entropy |-> NoDigest, purpose |-> 44, coin |-> CoinType(c),
   account |-> UserPart(GetUserSeed(u)), index |-> i]

\* createWalletFromTelegramId of the services that read
\* CONFIG.MASTER_MNEMONIC: the first 64 hex digits of the digest are the
\* private key.
CreateWalletFromTelegramId(u, c) ==
  [root |-> "privateKey", entropy |-> GetUserSeed(u), purpose |-> 0,
   coin |-> CoinType(c), account |-> 0, index |-> 0]

WalletFunctions == {"getUserWallet", "createWalletFromTelegramId"}

WalletOf(fn, u, c, i) ==
  IF fn = "getUserWallet" THEN GetUserWallet(u, c, i)
  ELSE CreateWalletFromTelegramId(u, c)

\* No wallet handed out yet.
KeyState ==
  /\ userSeed \in UserSeeds
  /\ handed = <<>>

\* The environment variables the process may find.
Environments ==
  [TELEGRAM_BOT_TOKEN : {"missing", "set"},
   MASTER_MNEMONIC : {"missing", "malformed", "valid"},
   SERVER_SECRET : {"missing", "set"}]

\* A session field that is undefined.
NoSessionWallet ==
  [wallet |-> [root |-> "none", entropy |-> NoDigest, purpose |-> 0, coin |-> 0,
               account |-> 0, index |-> 0],
   privateKey |-> FALSE, mnemonic |-> FALSE]

\* The object the wallet functions return: {address, privateKey, mnemonic,
\* ...}.
WalletObject(w) == [wallet |-> w, privateKey |-> TRUE, mnemonic |-> TRUE]

NoSession == [sourceWallet |-> NoSessionWallet, destinationWallet |-> NoSessionWallet]

StartupState ==
  /\ env \in Environments
  /\ boot = "loading"
  /\ session = [u \in Users |-> NoSession]

KeyIdle ==
  /\ userSeed = [u \in Users |->
       [segment |-> u % (MaxSegment + 1), other |-> (u \div (MaxSegment + 1)) % 2]]
  /\ handed = <<>>
  /\ env = [TELEGRAM_BOT_TOKEN |-> "set", MASTER_MNEMONIC |-> "valid", SERVER_SECRET |-> "set"]
  /\ boot = "loading"
  /\ session = [u \in Users |-> NoSession]

\* A handler or a service asks for a wallet; `handed` keeps the last two.
HandOut(fn, u, c, i) ==
  /\ fn = "createWalletFromTelegramId" => i = 0
  /\ LET call == [fn |-> fn, user |-> u, chain |-> c, index |-> i,
                  wallet |-> WalletOf(fn, u, c, i)]
     IN handed' = IF Len(handed) < 2 THEN Append(handed, call)
                  ELSE <<handed[2], call>>
  /\ UNCHANGED <<userSeed, env, boot, session>>

\* The wallets of the balance menu: "Wallet 1", "Wallet 2" (Ethereum) and
\* "Wallet 3" (Bitcoin) are check_wallet_balance_<userId>_0, _1 and _2.
WalletButtons == {0, 1, 2}

\* BitcoinService.getBalanceForUser(telegramId): the balance of the wallet
\* that createWalletFromTelegramId gives the user.
GetBalanceForUser(u) == CreateWalletFromTelegramId(u, BITCOIN)

\* The check_wallet_balance handler: the wallet shown is getUserWallet's;
\* the balance is getBalanceForUser's for Bitcoin and the balance of the
\* shown address for Ethereum.  `handed` becomes the wallet shown and the
\* wallet whose balance is reported.
CheckWalletBalance(u, walletIndex) ==
  LET blockchainType == IF walletIndex = 2 THEN BITCOIN ELSE ETHEREUM
      index == IF walletIndex \in {0, 2} THEN walletIndex ELSE 1
      wallet == GetUserWallet(u, blockchainType, index)
      display == [fn |-> "getUserWallet", user |-> u, chain |-> blockchainType,
                index |-> index, wallet |-> wallet]
      balanceInfo == [fn |-> IF blockchainType = BITCOIN THEN "getBalanceForUser"
                         ELSE "getBalance",
                  user |-> u, chain |-> blockchainType, index |-> index,
                  wallet |-> IF blockchainType = BITCOIN THEN GetBalanceForUser(u)
                             ELSE wallet]
  IN /\ handed' = <<display, balanceInfo>>
     /\ UNCHANGED <<userSeed, env, boot, session>>

KeyNext ==
  \/ \E fn \in WalletFunctions, u \in Users, c \in BlockchainType, i \in Indices :
       HandOut(fn, u, c, i)
  \/ \E u \in Users, walletIndex \in WalletButtons : CheckWalletBalance(u, walletIndex)

Handed == {handed[k] : k \in 1..Len(handed)}

C25_OnlyMasterSeedScheme ==
  \A a \in Handed :
    /\ a.wallet.root = "master"
    /\ a.wallet.purpose = 44
    /\ a.wallet.coin = (IF a.chain = ETHEREUM THEN 60 ELSE 0)
    /\ a.wallet.account = userSeed[a.user].segment
    /\ a.wallet.index = a.index

\* C39: the Bitcoin balance reported by the balance check is the balance of
\* the wallet that getUserWallet returned for that user and wallet index
\* and that the message shows.
C39_BalanceOfShownWallet ==
  Len(handed) = 2 /\ handed[2].fn = "getBalanceForUser"
    => handed[2].wallet = handed[1].wallet

(***************************************************************************)
(* Startup (src/config/index.ts) and the wallets the swap handlers keep in *)
(* ctx.session.  The session is grammY's session middleware with its       *)
(* default storage.                                                        *)
(***************************************************************************)
\* export const CONFIG = {...}: a variable that is not set gives "" for the
\* token and the mnemonic and "server_secret" for the server secret.
Config ==
  [TELEGRAM_BOT_TOKEN |-> IF env.TELEGRAM_BOT_TOKEN = "missing" THEN "" ELSE "set",
   MASTER_MNEMONIC |-> IF env.MASTER_MNEMONIC = "missing" THEN "" ELSE env.MASTER_MNEMONIC,
   SERVER_SECRET |-> IF env.SERVER_SECRET = "missing" THEN "server_secret" ELSE "set"]

\* The module is loaded: the two `if (!CONFIG.X) throw` and then startBot().
LoadConfig ==
  /\ boot = "loading"
  /\ boot' = IF Config.TELEGRAM_BOT_TOKEN = "" \/ Config.MASTER_MNEMONIC = ""
               THEN "failed" ELSE "handling"
  /\ UNCHANGED <<userSeed, handed, env, session>>

\* swap_network: ctx.session.sourceWallet = await getUserWallet(userId,
\* selectedNetwork, walletIndex) with walletIndex 2 for Bitcoin and 0 else.
\* mnemonicToSeedSync takes any string, so no mnemonic makes the call fail.
SwapNetwork(u, c) ==
  /\ boot = "handling"
  /\ session' = [session EXCEPT ![u].sourceWallet =
       WalletObject(GetUserWallet(u, c, IF c = BITCOIN THEN 2 ELSE 0))]
  /\ UNCHANGED <<userSeed, handed, env, boot>>

\* swap_cross_direction: eth_btc keeps the Ethereum wallet as source and the
\* Bitcoin wallet as destination, btc_eth the other way round.
SwapCrossDirection(u, from) ==
  /\ boot = "handling"
  /\ LET to == IF from = ETHEREUM THEN BITCOIN ELSE ETHEREUM
     IN session' = [session EXCEPT
          ![u].sourceWallet = WalletObject(GetUserWallet(u, from, 0)),
          ![u].destinationWallet = WalletObject(GetUserWallet(u, to, 0))]
  /\ UNCHANGED <<userSeed, handed, env, boot>>

\* resetSwapSession: destinationWallet = undefined; sourceWallet stays.
ResetSwapSession(u) ==
  /\ boot = "handling"
  /\ session[u] # NoSession
  /\ session' = [session EXCEPT ![u].destinationWallet = NoSessionWallet]
  /\ UNCHANGED <<userSeed, handed, env, boot>>

StartupNext ==
  \/ LoadConfig
  \/ \E u \in Users, c \in BlockchainType : SwapNetwork(u, c)
  \/ \E u \in Users, c \in BlockchainType : SwapCrossDirection(u, c)
  \/ \E u \in Users : ResetSwapSession(u)

\* C26: the process handles requests only with a valid master mnemonic and
\* a server secret that was set; otherwise it fails at startup.
C26_SecretsCheckedAtStartup ==
  boot = "handling" =>
    /\ env.MASTER_MNEMONIC = "valid"
    /\ env.SERVER_SECRET = "set"

\* C27: no session holds a private key or a mnemonic.
C27_NoKeyMaterialInSession ==
  \A u \in Users :
    /\ ~session[u].sourceWallet.privateKey /\ ~session[u].sourceWallet.mnemonic
    /\ ~session[u].destinationWallet.privateKey
    /\ ~session[u].destinationWallet.mnemonic

(***************************************************************************)
(* UniswapService.findWorkingPool: the factory is asked for the pool of    *)
(* each fee tier in turn.  For a tier the factory reports no pool          *)
(* (AddressZero), a pool whose liquidity() is zero, a pool with liquidity, *)
(* or the calls for it throw.                                              *)
(***************************************************************************)
\* const feeTiers = [100, 200, 300, 500, 3000, 10000]
FeeTiers == <<100, 200, 300, 500, 3000, 10000>>

PoolReports == {"none", "empty", "liquid", "throws"}

\* The result when the loop ends without a pool: the function throws.
NoPool == 0
NotCalled == 0 - 1

\* The body of the loop: AddressZero gives continue, a throw is caught
\* and logged, every other pool is returned.
ReturnsPool(report) == report \in {"empty", "liquid"}

\* for (const fee of feeTiers) {...} from tier number k on.
RECURSIVE FindWorkingPoolFrom(_, _)
FindWorkingPoolFrom(reports, k) ==
  IF k > Len(FeeTiers) THEN NoPool
  ELSE IF ReturnsPool(reports[k]) THEN FeeTiers[k]
  ELSE FindWorkingPoolFrom(reports, k + 1)

PoolState ==
  /\ pools \in [1..Len(FeeTiers) -> PoolReports]
  /\ pool = NotCalled

PoolIdle ==
  /\ pools = [k \in 1..Len(FeeTiers) |-> "none"]
  /\ pool = NotCalled

\* getQuote or executeSwap calls findWorkingPool.
FindWorkingPool ==
  /\ pool' = FindWorkingPoolFrom(pools, 1)
  /\ UNCHANGED pools

PoolNext == FindWorkingPool

\* The fee tiers with a pool that reports liquidity.
LiquidTiers == {k \in 1..Len(FeeTiers) : pools[k] = "liquid"}

\* C28: the fee tiers are ascending, and findWorkingPool returns the pool
\* of the first tier that has a pool with nonzero liquidity, or none when
\* there is no such tier; it never returns a pool with zero liquidity.
C28_FirstTierWithLiquidity ==
  /\ \A j, k \in 1..Len(FeeTiers) : j < k => FeeTiers[j] < FeeTiers[k]
  /\ pool # NotCalled =>
       IF LiquidTiers = {} THEN pool = NoPool
       ELSE \E k \in LiquidTiers :
              /\ pool = FeeTiers[k]
              /\ \A j \in LiquidTiers : k <= j

(***************************************************************************)
(* The Garden instance behind this.garden while executeSwap runs.  Every   *)
(* step of executeSwap reads the field this.garden anew:                   *)
(* this.garden.quote.getQuote, this.garden.swap and                        *)
(* this.garden.evmHTLC?.initiate; configureWallets assigns the field.      *)
(* A call keeps, per step, the instance the field held when the step ran.  *)
(***************************************************************************)
NewSharedCall ==
  [pc |-> "new", user |-> 0, own |-> 0, quoted |-> 0, created |-> 0, initiated |-> 0]

SharedState == gcalls = [r \in Calls |-> NewSharedCall]

\* A dispatcher that starts the handler of an update while the handler of
\* an earlier one is still awaiting.
HandleConfirmsConcurrently == TRUE

\* bot.start(): the next update is handled when the handler of the previous
\* one has returned, and the handler awaits executeSwap.
MayHandleCrossChainConfirm == \A r \in Calls : gcalls[r].pc \in {"new", "done"}

\* swap_cross_chain_confirm calls executeSwap for a supported pair:
\* configureWallets makes the instance of this call and assigns this.garden.
SharedExecuteSwap(r, u, from, hasKey) ==
  /\ gcalls[r].pc = "new"
  /\ \A q \in Calls : q < r => gcalls[q].pc # "new"
  /\ MayHandleCrossChainConfirm
  /\ Len(gardens) < MaxGardens
  /\ gardens' = ConfigureWallets(gardens,
                  IF from = ETHEREUM /\ hasKey THEN u ELSE NoWallet,
                  listenersInitialized)
  /\ garden' = Len(gardens) + 1
  /\ gcalls' = [gcalls EXCEPT ![r] =
       [NewSharedCall EXCEPT !.pc = "quote", !.user = u, !.own = Len(gardens) + 1]]
  /\ UNCHANGED <<listenersInitialized, orders, orderUserMap, gcall>>

\* await this.garden.quote.getQuote(...)
SharedQuote(r, ok) ==
  /\ gcalls[r].pc = "quote"
  /\ gcalls' = [gcalls EXCEPT ![r].quoted = garden,
                              ![r].pc = IF ok THEN "swap" ELSE "done"]
  /\ UNCHANGED gvars

\* await this.garden.swap(swapParams)
SharedCreate(r, ok) ==
  /\ gcalls[r].pc = "swap"
  /\ gcalls' = [gcalls EXCEPT ![r].created = garden,
                              ![r].pc = IF ok THEN "initiate" ELSE "done"]
  /\ UNCHANGED gvars

\* await this.garden.evmHTLC?.initiate(order), then the return.
SharedInitiate(r) ==
  /\ gcalls[r].pc = "initiate"
  /\ gcalls' = [gcalls EXCEPT ![r].initiated = garden, ![r].pc = "done"]
  /\ UNCHANGED gvars

SharedNext ==
  \/ \E r \in Calls, u \in Users, from \in BlockchainType, hasKey \in BOOLEAN :
        SharedExecuteSwap(r, u, from, hasKey)
  \/ \E r \in Calls, ok \in BOOLEAN : SharedQuote(r, ok)
  \/ \E r \in Calls, ok \in BOOLEAN : SharedCreate(r, ok)
  \/ \E r \in Calls : SharedInitiate(r)

Tokens == 1..MaxTokens
NoToken == 0

SWAP_HANDLER == "swap.handler"
SWAP_CALLBACK == "swap.callback"
HandlerVersions == {SWAP_HANDLER, SWAP_CALLBACK}

\* `amount` is session.amount for the CoW handlers and session.sellAmount
\* for the router handlers; a wallet field is TRUE when a wallet is stored.
ClearedSession ==
  [swapStep |-> "none", swapAction |-> "none", sellToken |-> NoToken,
   buyToken |-> NoToken, amount |-> FALSE, crossChainAmount |-> FALSE,
   wallet |-> FALSE, selectedChainId |-> FALSE, fromChain |-> FALSE,
   sourceWallet |-> FALSE, destinationWallet |-> FALSE]

NoButtons == [sell |-> {}, buy |-> {}, confirm |-> FALSE, crossConfirm |-> FALSE]

ConfirmIdle ==
  [pc |-> "idle", queued |-> FALSE, second |-> FALSE, posted |-> FALSE,
   priorPosted |-> FALSE, timer |-> "none", ended |-> FALSE]

ChatIdle ==
  /\ handlers = SWAP_HANDLER /\ chat = ClearedSession
  /\ buttons = NoButtons /\ hcall = ConfirmIdle

ChatState ==
  /\ handlers \in HandlerVersions /\ chat = ClearedSession
  /\ buttons = NoButtons /\ hcall = ConfirmIdle

\* clearSwapSession of utils.ts.
ClearSwapSession(s) ==
  [s EXCEPT !.swapStep = "none", !.selectedChainId = FALSE, !.sellToken = NoToken,
            !.buyToken = NoToken, !.amount = FALSE, !.swapAction = "none",
            !.wallet = FALSE, !.sourceWallet = FALSE, !.destinationWallet = FALSE,
            !.fromChain = FALSE, !.crossChainAmount = FALSE]

\* resetSwapSession of swap.callback.ts: it leaves sourceWallet, wallet and
\* selectedChainId as they are.
ResetSwapFields(s) ==
  [s EXCEPT !.swapStep = "none", !.swapAction = "none", !.fromChain = FALSE,
            !.sellToken = NoToken, !.buyToken = NoToken, !.amount = FALSE,
            !.destinationWallet = FALSE]

EndOfSwap(h, s) == IF h = SWAP_HANDLER THEN ClearSwapSession(s) ELSE ResetSwapFields(s)

\* A guard that looks at the two tokens only.
HoldsTokens(h, s) == s.sellToken # NoToken /\ s.buyToken # NoToken

\* The guard at the head of swap_confirm (userId is always there for a
\* callback query of a user).
HoldsSwapInformation(h, s) ==
  IF h = SWAP_HANDLER
    THEN /\ s.selectedChainId /\ s.sellToken # NoToken /\ s.buyToken # NoToken
         /\ s.amount /\ s.wallet /\ s.swapAction # "none"
    ELSE /\ s.sellToken # NoToken /\ s.buyToken # NoToken
         /\ s.amount /\ s.sourceWallet

\* No handler runs and no update waits: the next update is handled now.
ChatReady == hcall.pc = "idle" /\ ~hcall.queued

\* swap_action_buy / swap_action_sell.
SwapAction(a) ==
  /\ ChatReady
  /\ chat' = IF handlers = SWAP_HANDLER
               THEN [ClearSwapSession(chat) EXCEPT !.swapAction = a]
               ELSE [chat EXCEPT !.swapStep = "select_network", !.swapAction = a]
  /\ UNCHANGED <<handlers, buttons, hcall>>

\* swap_select_wallet_N (CoW handlers): only an Ethereum wallet is stored.
SwapSelectWallet ==
  /\ ChatReady /\ handlers = SWAP_HANDLER
  /\ chat.swapAction # "none" /\ ~chat.wallet
  /\ chat' = [chat EXCEPT !.wallet = TRUE]
  /\ UNCHANGED <<handlers, buttons, hcall>>

\* swap_select_chain_X (CoW handlers).
SwapSelectChain ==
  /\ ChatReady /\ handlers = SWAP_HANDLER
  /\ chat.swapAction # "none" /\ chat.wallet
  /\ chat' = [chat EXCEPT
       !.selectedChainId = TRUE,
       !.swapStep = IF chat.swapAction = "buy" THEN "enter_buy_token"
                    ELSE "enter_sell_token"]
  /\ UNCHANGED <<handlers, buttons, hcall>>

\* What both the typed entry and the selection among several matches do
\* with the token found: they store it, and only then, and only in the
\* flow that already has the other token, compare the two.
StoreToken(s, side, t) ==
  IF side = "sell"
    THEN LET s1 == [s EXCEPT !.sellToken = t]
         IN IF s.swapAction = "buy" /\ s.buyToken # NoToken
              THEN IF t = s.buyToken THEN s1
                   ELSE [s1 EXCEPT !.swapStep = "enter_amount"]
              ELSE [s1 EXCEPT !.swapStep = "enter_buy_token"]
    ELSE LET s1 == [s EXCEPT !.buyToken = t]
         IN IF s.swapAction = "sell" /\ s.sellToken # NoToken
              THEN IF t = s.sellToken THEN s1
                   ELSE [s1 EXCEPT !.swapStep = "enter_amount"]
              ELSE [s1 EXCEPT !.swapStep = "enter_sell_token"]

\* message:text at the step enter_sell_token / enter_buy_token (CoW
\* handlers): a query with several matches sends one button per match, a
\* query with one match stores the token.
EnterToken(side, t, several) ==
  /\ ChatReady /\ handlers = SWAP_HANDLER
  /\ chat.swapStep = IF side = "sell" THEN "enter_sell_token" ELSE "enter_buy_token"
  /\ IF several
       THEN /\ buttons' = IF side = "sell" THEN [buttons EXCEPT !.sell = Tokens]
                          ELSE [buttons EXCEPT !.buy = Tokens]
            /\ buttons' # buttons
            /\ UNCHANGED chat
       ELSE /\ chat' = StoreToken(chat, side, t)
            /\ UNCHANGED buttons
  /\ UNCHANGED <<handlers, hcall>>

\* swap_select_sell_token_X / swap_select_buy_token_X (CoW handlers).
SelectToken(side, t) ==
  /\ ChatReady /\ handlers = SWAP_HANDLER
  /\ t \in (IF side = "sell" THEN buttons.sell ELSE buttons.buy)
  /\ chat.selectedChainId
  /\ chat' = StoreToken(chat, side, t)
  /\ UNCHANGED <<handlers, buttons, hcall>>

\* swap_network_X (router handlers).
SwapNetworkPressed ==
  /\ ChatReady /\ handlers = SWAP_CALLBACK
  /\ chat.swapStep = "select_network"
  /\ chat' = [chat EXCEPT !.fromChain = TRUE, !.selectedChainId = TRUE,
                          !.sourceWallet = TRUE, !.swapStep = "select_from_token"]
  /\ buttons' = [buttons EXCEPT !.sell = Tokens]
  /\ UNCHANGED <<handlers, hcall>>

\* swap_from_token_X (router handlers).
SwapFromToken(t) ==
  /\ ChatReady /\ handlers = SWAP_CALLBACK
  /\ t \in buttons.sell /\ chat.fromChain
  /\ chat' = [chat EXCEPT !.sellToken = t, !.swapStep = "select_to_chain"]
  /\ UNCHANGED <<handlers, buttons, hcall>>

\* swap_to_chain_X for the same network (router handlers): the keyboard
\* leaves out the token selected to sell.
SwapToChain ==
  /\ ChatReady /\ handlers = SWAP_CALLBACK
  /\ chat.swapStep = "select_to_chain"
  /\ chat' = [chat EXCEPT !.swapStep = "select_to_token"]
  /\ buttons' = [buttons EXCEPT !.buy = @ \cup (Tokens \ {chat.sellToken})]
  /\ UNCHANGED <<handlers, hcall>>

\* swap_to_token_X (router handlers).
SwapToToken(t) ==
  /\ ChatReady /\ handlers = SWAP_CALLBACK
  /\ t \in buttons.buy /\ chat.sellToken # NoToken
  /\ chat' = [chat EXCEPT !.buyToken = t, !.swapStep = "enter_amount"]
  /\ UNCHANGED <<handlers, buttons, hcall>>

\* message:text at the step enter_amount, with a valid amount.
EnterAmount ==
  /\ ChatReady /\ chat.swapStep = "enter_amount"
  /\ IF handlers = SWAP_HANDLER /\ (chat.sellToken = NoToken \/ chat.buyToken = NoToken)
       THEN chat' = ClearSwapSession(chat) /\ UNCHANGED buttons
       ELSE /\ chat' = [chat EXCEPT !.amount = TRUE, !.swapStep = "confirm"]
            /\ buttons' = [buttons EXCEPT !.confirm = TRUE]
  /\ UNCHANGED <<handlers, hcall>>

\* swap_cross_direction_X (CoW handlers).
SwapCrossDirectionPressed ==
  /\ ChatReady /\ handlers = SWAP_HANDLER
  /\ chat.swapAction # "none" /\ ~chat.sourceWallet
  /\ chat' = [chat EXCEPT !.sourceWallet = TRUE, !.destinationWallet = TRUE,
                          !.fromChain = TRUE, !.swapStep = "enter_cross_chain_amount"]
  /\ UNCHANGED <<handlers, buttons, hcall>>

\* message:text at the step enter_cross_chain_amount, with a valid amount.
EnterCrossChainAmount ==
  /\ ChatReady /\ handlers = SWAP_HANDLER
  /\ chat.swapStep = "enter_cross_chain_amount"
  /\ IF chat.sourceWallet /\ chat.destinationWallet /\ chat.fromChain
       THEN /\ chat' = [chat EXCEPT !.crossChainAmount = TRUE]
            /\ buttons' = [buttons EXCEPT !.crossConfirm = TRUE]
       ELSE chat' = ClearSwapSession(chat) /\ UNCHANGED buttons
  /\ chat' # chat
  /\ UNCHANGED <<handlers, hcall>>

\* The handler ends: the mark every finished swap_confirm,
\* swap_cross_chain_confirm and swap_cancel leaves.
Ended(c) == [c EXCEPT !.pc = "idle", !.ended = ~@]

\* swap_confirm up to its venue call.  Without the swap information it
\* answers "Missing swap information" and returns.  The message that
\* announces the processing may fail (announced = FALSE): the CoW handler
\* catches, replies and clears the session; the router handler catches and
\* replies.  Otherwise the CoW handler starts its status timer and the
\* handler awaits the venue.
SwapConfirmPressed(announced) ==
  /\ hcall.pc = "idle" /\ buttons.confirm
  /\ LET run == [hcall EXCEPT !.queued = FALSE, !.second = hcall.queued,
                              !.posted = FALSE, !.priorPosted = hcall.posted,
                              !.timer = "none"]
     IN IF ~HoldsSwapInformation(handlers, chat)
          THEN hcall' = Ended(run) /\ UNCHANGED chat
          ELSE IF ~announced
            THEN /\ hcall' = Ended(run)
                 /\ chat' = IF handlers = SWAP_HANDLER THEN ClearSwapSession(chat)
                            ELSE chat
            ELSE /\ hcall' = [run EXCEPT
                      !.pc = "executing",
                      !.timer = IF handlers = SWAP_HANDLER THEN "running" ELSE "none"]
                 /\ UNCHANGED chat
  /\ UNCHANGED <<handlers, buttons>>

\* The awaited executeSwap (router: executeBestDEXSwap) returns.  When an
\* order was created the CoW handler's onOrderCreated edits the status
\* message and then clears the timer; an edit that fails (shown = FALSE) is
\* caught inside the callback, before clearInterval.
VenueReturns(outcome, shown) ==
  /\ hcall.pc = "executing"
  /\ shown => outcome # "notCreated"
  /\ hcall' = [hcall EXCEPT
       !.pc = "telling",
       !.posted = outcome # "notCreated",
       !.timer = IF handlers = SWAP_HANDLER /\ shown THEN "cleared" ELSE @]
  /\ UNCHANGED <<handlers, chat, buttons>>

\* swap_confirm tells the result and clears the swap fields; when telling
\* fails (told = FALSE) the CoW handler's catch replies and clears, the
\* router handler's catch only replies.
TellResult(told) ==
  /\ hcall.pc = "telling"
  /\ chat' = IF told \/ handlers = SWAP_HANDLER THEN EndOfSwap(handlers, chat)
             ELSE chat
  /\ hcall' = Ended(hcall)
  /\ UNCHANGED <<handlers, buttons>>

\* The user presses Confirm again while swap_confirm is executing: the
\* update waits until the handler has finished.
SwapConfirmArrives ==
  /\ hcall.pc # "idle" /\ ~hcall.queued /\ buttons.confirm
  /\ hcall' = [hcall EXCEPT !.queued = TRUE]
  /\ UNCHANGED <<handlers, chat, buttons>>

\* swap_cancel (CoW handlers): answerCallbackQuery, editMessageText, then
\* clearSwapSession; no try around them.
SwapCancel(edited) ==
  /\ ChatReady /\ handlers = SWAP_HANDLER /\ buttons.confirm
  /\ chat' = IF edited THEN ClearSwapSession(chat) ELSE chat
  /\ hcall' = Ended(hcall)
  /\ UNCHANGED <<handlers, buttons>>

\* swap_cross_chain_confirm (CoW handlers): it clears the session when the
\* information is missing, after the result was told and in its catch.
SwapCrossChainConfirm ==
  /\ ChatReady /\ handlers = SWAP_HANDLER /\ buttons.crossConfirm
  /\ chat' = ClearSwapSession(chat)
  /\ hcall' = Ended(hcall)
  /\ UNCHANGED <<handlers, buttons>>

ChatNext ==
  \/ \E a \in {"buy", "sell"} : SwapAction(a)
  \/ SwapSelectWallet
  \/ SwapSelectChain
  \/ \E side \in {"sell", "buy"}, t \in Tokens, several \in BOOLEAN :
        EnterToken(side, t, several)
  \/ \E side \in {"sell", "buy"}, t \in Tokens : SelectToken(side, t)
  \/ SwapNetworkPressed
  \/ \E t \in Tokens : SwapFromToken(t)
  \/ SwapToChain
  \/ \E t \in Tokens : SwapToToken(t)
  \/ EnterAmount
  \/ SwapCrossDirectionPressed
  \/ EnterCrossChainAmount
  \/ \E announced \in BOOLEAN : SwapConfirmPressed(announced)
  \/ \E outcome \in {"notCreated", "fulfilled", "unfilled"}, shown \in BOOLEAN :
        VenueReturns(outcome, shown)
  \/ \E told \in BOOLEAN : TellResult(told)
  \/ SwapConfirmArrives
  \/ \E edited \in BOOLEAN : SwapCancel(edited)
  \/ SwapCrossChainConfirm

\* C31: the swap_confirm that arrived while an earlier one was executing
\* does not post an order or send a transaction after the earlier one
\* posted or sent its own.
C31_NoSecondOrder == ~(hcall.second /\ hcall.posted /\ hcall.priorPosted)

\* C35: when the swap_confirm handler has finished, the status timer it
\* started is not running any more.
C35_TimersCleared == hcall.pc = "idle" => hcall.timer # "running"

\* C36: a step that finishes swap_confirm, swap_cross_chain_confirm or
\* swap_cancel leaves every swap field of the session undefined, the stored
\* wallet, source wallet and destination wallet included.
C36_SessionClearedAfterSwap ==
  [][hcall'.ended # hcall.ended => chat' = ClearedSession]_vars

\* C37: while swap_confirm is at its venue call the session holds a sell
\* token, a buy token, an amount and a wallet, and for the CoW handler a
\* chain id and an action as well.
C37_VenueCallNeedsSwapInformation ==
  hcall.pc = "executing" =>
    /\ chat.sellToken # NoToken /\ chat.buyToken # NoToken /\ chat.amount
    /\ IF handlers = SWAP_HANDLER
         THEN chat.wallet /\ chat.selectedChainId /\ chat.swapAction # "none"
         ELSE chat.sourceWallet

\* swap_confirm is at its venue call with a session that holds both tokens
\* and the amount.
C37_Witness ==
  /\ hcall.pc = "executing" /\ chat.amount
  /\ chat.sellToken # NoToken /\ chat.buyToken # NoToken

\* C40: at the confirmation step and during the execution the sell token
\* and the buy token of the session are different assets.
C40_NoSelfSwap ==
  chat.swapStep = "confirm" \/ hcall.pc = "executing" => chat.sellToken # chat.buyToken

(***************************************************************************)
GardenInit == GardenState /\ AllowanceIdle /\ RouterState /\ SwapState /\ MonitorState /\ WalletState /\ LoopState /\ KeyIdle /\ PoolIdle /\ SharedState /\ ChatIdle

\* What a step of the Garden service leaves alone.
GardenFrame == UNCHANGED <<avars, rvars, xvars, mvars, wvars, pvars, kvars, fvars, svars, cvars>>

GardenSpec == GardenInit /\ [][GardenNext /\ GardenFrame]_vars

\* The timer keeps firing, an awaited call of executeSwap returns, timelocks
\* run out, and a loop that handles an order acts on it.
GardenFairness ==
  /\ WF_vars(Tick /\ GardenFrame)
  /\ WF_vars((\E ok \in BOOLEAN : ExecuteSwapQuote(ok)) /\ GardenFrame)
  /\ WF_vars((\E ok \in BOOLEAN : ExecuteSwapCreate(ok)) /\ GardenFrame)
  /\ WF_vars((\E ok \in BOOLEAN : ExecuteSwapInitiate(ok)) /\ GardenFrame)
  /\ WF_vars((\E ok \in BOOLEAN : ExecuteSwapFund(ok)) /\ GardenFrame)
  /\ \A i \in 1..MaxOrders : WF_vars(Expire(i) /\ GardenFrame)
  /\ \A i \in 1..MaxOrders : WF_vars(LoopRefund(i) /\ GardenFrame)

FairGardenSpec == GardenSpec /\ GardenFairness

AllowanceInit == GardenState /\ AllowanceState /\ RouterState /\ SwapState /\ MonitorState /\ WalletState /\ LoopState /\ KeyIdle /\ PoolIdle /\ SharedState /\ ChatIdle

\* What a step of an allowance call leaves alone.
AllowanceFrame == UNCHANGED <<gvars, rvars, xvars, mvars, wvars, pvars, kvars, fvars, svars, cvars>>

AllowanceSpec == AllowanceInit /\ [][AllowanceNext /\ AllowanceFrame]_vars

RouterInit == GardenState /\ AllowanceIdle /\ RouterState /\ SwapState /\ MonitorState /\ WalletState /\ LoopState /\ KeyIdle /\ PoolIdle /\ SharedState /\ ChatIdle

\* What a step of executeBestDEXSwap leaves alone.
RouterFrame == UNCHANGED <<gvars, avars, xvars, mvars, wvars, pvars, kvars, fvars, svars, cvars>>

RouterSpec == RouterInit /\ [][RouterNext /\ RouterFrame]_vars

SwapInit ==
  /\ GardenState /\ AllowanceIdle /\ RouterState /\ MonitorState /\ WalletState /\ LoopState /\ KeyIdle /\ PoolIdle /\ SharedState /\ ChatIdle
  /\ balance \in 0..MaxAmount
  /\ xcall = SwapIdle

\* What a step of executeSwap leaves alone.
SwapFrame == UNCHANGED <<gvars, avars, rvars, mvars, wvars, pvars, kvars, fvars, svars, cvars>>

SwapSpec == SwapInit /\ [][SwapNext /\ SwapFrame]_vars

MonitorInit ==
  /\ GardenState /\ AllowanceIdle /\ RouterState /\ SwapState /\ WalletState /\ LoopState /\ KeyIdle /\ PoolIdle /\ SharedState /\ ChatIdle
  /\ now = 0
  /\ cowOrder \in {NewOrder(OPEN), NewOrder(PRESIGNATURE_PENDING)}
  /\ mon = MonitorIdle
  /\ swapResult = "none"
  /\ reply = "none"

\* What a step of the monitor and its consumers leaves alone.
MonitorFrame == UNCHANGED <<gvars, avars, rvars, xvars, wvars, pvars, kvars, fvars, svars, cvars>>

MonitorSpec == MonitorInit /\ [][MonitorNext /\ MonitorFrame]_vars

WalletInit ==
  /\ GardenState /\ AllowanceIdle /\ RouterState /\ SwapState /\ MonitorState
  /\ WalletState /\ LoopState /\ KeyIdle /\ PoolIdle /\ SharedState /\ ChatIdle

\* What a step of a swap_confirm handler leaves alone.
WalletFrame == UNCHANGED <<gvars, avars, rvars, xvars, mvars, pvars, kvars, fvars, svars, cvars>>

WalletSpec == WalletInit /\ [][WalletNext /\ WalletFrame]_vars

\* What a step of the Garden service or of a run of execute() leaves alone.
LoopFrame == UNCHANGED <<avars, rvars, xvars, mvars, wvars, kvars, fvars, svars, cvars>>

LoopSpec == GardenInit /\ [][LoopNext /\ LoopFrame]_vars

\* What the wallet functions leave alone.
KeyFrame == UNCHANGED <<gvars, avars, rvars, xvars, mvars, wvars, pvars, fvars, svars, cvars>>

KeyInit ==
  /\ GardenState /\ AllowanceIdle /\ RouterState /\ SwapState /\ MonitorState
  /\ WalletState /\ LoopState /\ KeyState /\ PoolIdle /\ SharedState /\ ChatIdle
  /\ env = [TELEGRAM_BOT_TOKEN |-> "set", MASTER_MNEMONIC |-> "valid", SERVER_SECRET |-> "set"]
  /\ boot = "handling"
  /\ session = [u \in Users |-> NoSession]

KeySpec == KeyInit /\ [][KeyNext /\ KeyFrame]_vars

StartupInit ==
  /\ GardenState /\ AllowanceIdle /\ RouterState /\ SwapState /\ MonitorState
  /\ WalletState /\ LoopState /\ PoolIdle /\ SharedState /\ ChatIdle
  /\ userSeed = [u \in Users |->
       [segment |-> u % (MaxSegment + 1), other |-> (u \div (MaxSegment + 1)) % 2]]
  /\ handed = <<>>
  /\ StartupState

StartupSpec == StartupInit /\ [][StartupNext /\ KeyFrame]_vars

PoolInit ==
  /\ GardenState /\ AllowanceIdle /\ RouterState /\ SwapState /\ MonitorState
  /\ WalletState /\ LoopState /\ KeyIdle /\ PoolState /\ SharedState /\ ChatIdle

\* What findWorkingPool leaves alone.
PoolFrame == UNCHANGED <<gvars, avars, rvars, xvars, mvars, wvars, pvars, kvars, svars, cvars>>

PoolSpec == PoolInit /\ [][PoolNext /\ PoolFrame]_vars

\* What a step of these calls leaves alone.
SharedFrame == UNCHANGED <<avars, rvars, xvars, mvars, wvars, pvars, kvars, fvars, cvars>>

SharedSpec == GardenInit /\ [][SharedNext /\ SharedFrame]_vars

ChatInit ==
  /\ GardenState /\ AllowanceIdle /\ RouterState /\ SwapState /\ MonitorState
  /\ WalletState /\ LoopState /\ KeyIdle /\ PoolIdle /\ SharedState /\ ChatState

ChatFrame == UNCHANGED <<gvars, avars, rvars, xvars, mvars, wvars, pvars, kvars, fvars, svars>>

ChatSpec == ChatInit /\ [][ChatNext /\ ChatFrame]_vars

ScenarioSpec == GardenInit /\ [][ScenarioNext]_vars

=============================================================================
